---- MODULE Spec2Model ----
(***************************************************************************)
(* Verification model of the LED-installation visualizer                   *)
(* (server/front/index.html, with the engine variant of server/server.js   *)
(* where the two differ).                                                  *)
(*                                                                         *)
(* JavaScript numbers are modelled as exact rationals <<n, d>> (d > 0, in  *)
(* lowest terms); angles are counted in quarter turns (TAU/4), for which   *)
(* cos and sin are exactly 0, 1 or -1.                                     *)
(***************************************************************************)
EXTENDS Integers, Sequences, FiniteSets, TLC

----------------------------------------------------------------------------
(* Numbers *)

Abs(n) == IF n < 0 THEN -n ELSE n

RECURSIVE Gcd(_, _)
Gcd(a, b) == IF b = 0 THEN a ELSE Gcd(b, a % b)

\* the rational n/d in lowest terms with a positive denominator (d # 0)
Rat(n, d) ==
    IF d = 1 THEN <<n, 1>>
    ELSE LET g == Gcd(Abs(n), Abs(d))
             s == IF d < 0 THEN -1 ELSE 1
         IN  <<s * (n \div g), s * (d \div g)>>

R(n) == <<n, 1>>

RAdd(a, b) == IF a[2] = 1 /\ b[2] = 1 THEN <<a[1] + b[1], 1>>
              ELSE Rat(a[1] * b[2] + b[1] * a[2], a[2] * b[2])
RNeg(a)    == <<-a[1], a[2]>>
RSub(a, b) == RAdd(a, RNeg(b))
RMul(a, b) == IF a[2] = 1 /\ b[2] = 1 THEN <<a[1] * b[1], 1>>
              ELSE Rat(a[1] * b[1], a[2] * b[2])
RDiv(a, b) == Rat(a[1] * b[2], a[2] * b[1])
RLt(a, b)  == a[1] * b[2] < b[1] * a[2]
RLe(a, b)  == a[1] * b[2] <= b[1] * a[2]
RAbs(a)    == <<Abs(a[1]), a[2]>>
RMin(a, b) == IF RLt(b, a) THEN b ELSE a
RMax(a, b) == IF RLt(a, b) THEN b ELSE a

RECURSIVE Pow2(_)
Pow2(n) == IF n = 0 THEN 1 ELSE 2 * Pow2(n - 1)

\* bitwise operators of JavaScript on non-negative integers
RECURSIVE BitAnd(_, _)
BitAnd(a, b) == IF a = 0 \/ b = 0 THEN 0
                ELSE ((a % 2) * (b % 2)) + 2 * BitAnd(a \div 2, b \div 2)

RECURSIVE BitOr(_, _)
BitOr(a, b) == IF a = 0 THEN b ELSE IF b = 0 THEN a
               ELSE (IF (a % 2) + (b % 2) > 0 THEN 1 ELSE 0)
                    + 2 * BitOr(a \div 2, b \div 2)

\* cos and sin of q quarter turns
cos(q) == CASE q % 4 = 0 -> R(1)
            [] q % 4 = 1 -> R(0)
            [] q % 4 = 2 -> R(-1)
            [] OTHER     -> R(0)

sin(q) == CASE q % 4 = 0 -> R(0)
            [] q % 4 = 1 -> R(1)
            [] q % 4 = 2 -> R(0)
            [] OTHER     -> R(-1)

lerp(a, b, t) == RAdd(RMul(RSub(R(1), t), a), RMul(t, b))

ilerp(a, b, v) == RDiv(RSub(v, a), RSub(b, a))

linMap(inStart, inEnd, outStart, outEnd, inValue) ==
    lerp(outStart, outEnd, ilerp(inStart, inEnd, inValue))

clamp(lo, hi, value) == RMin(RMax(value, lo), hi)

----------------------------------------------------------------------------
(* Vector3: a function 0..2 -> number *)

Vec(x, y, z) == LET v == <<x, y, z>> IN [i \in 0..2 |-> v[i + 1]]

Vector3_zero == Vec(R(0), R(0), R(0))

Vector3_scaled(a, multiplier) ==
    Vec(RMul(a[0], multiplier), RMul(a[1], multiplier), RMul(a[2], multiplier))

Vector3_dotProduct(a, b) ==
    RAdd(RAdd(RMul(a[0], b[0]), RMul(a[1], b[1])), RMul(a[2], b[2]))

----------------------------------------------------------------------------
(* Matrix4x4: a function 0..15 -> number, element (row r, column c) stored *)
(* at index r + 4c                                                         *)

setValues(m11, m12, m13, m14, m21, m22, m23, m24, m31, m32, m33, m34, m41, m42, m43, m44) ==
    LET m == << m11, m21, m31, m41,
                 m12, m22, m32, m42,
                 m13, m23, m33, m43,
                 m14, m24, m34, m44 >>
    IN  [i \in 0..15 |-> m[i + 1]]

identity ==
    setValues(R(1), R(0), R(0), R(0),
              R(0), R(1), R(0), R(0),
              R(0), R(0), R(1), R(0),
              R(0), R(0), R(0), R(1))

copy(matrix) ==
    setValues(matrix[0], matrix[4], matrix[8],  matrix[12],
              matrix[1], matrix[5], matrix[9],  matrix[13],
              matrix[2], matrix[6], matrix[10], matrix[14],
              matrix[3], matrix[7], matrix[11], matrix[15])

\* the sum over k of a[i + 4k] * b[k + 4j]
Cij(a, b, i, j) ==
    RAdd(RAdd(RMul(a[i], b[j * 4]), RMul(a[i + 4], b[1 + j * 4])),
         RAdd(RMul(a[i + 8], b[2 + j * 4]), RMul(a[i + 12], b[3 + j * 4])))

\* The double loop of multiply over (i, j), n = 4i + j, writing into the
\* scratch matrix res.  bIsRes tells whether the operand b is the very
\* object res, in which case the loop reads back what it has written.
RECURSIVE multiplyLoop(_, _, _, _, _)
multiplyLoop(a, b, res, bIsRes, n) ==
    IF n = 16 THEN res
    ELSE LET i  == n \div 4
             j  == n % 4
             rb == IF bIsRes THEN res ELSE b
             r2 == [res EXCEPT ![i + j * 4] = Cij(a, rb, i, j)]
         IN  multiplyLoop(a, b, r2, bIsRes, n + 1)

\* a multiply that stores the sum for (i, j) at the transposed index
multiply_transposedStore(a, b) == copy([n \in 0..15 |-> Cij(a, b, n \div 4, n % 4)])

\* index.html, Matrix4x4.multiply(a, b, out): the loop fills the private
\* scratch matrix Matrix4x4.__temp2, which is then copied to out.  out is
\* written only by that final copy, so it may be a or b; no operand is ever
\* __temp2 itself.
multiply(a, b) == copy([n \in 0..15 |-> Cij(a, b, n % 4, n \div 4)])

times(a, b) == multiply(a, b)

add(a, b) == [n \in 0..15 |-> RAdd(a[n], b[n])]

plus(a, b) == add(a, b)

subtract(a, b) == [n \in 0..15 |-> RSub(a[n], b[n])]

minus(a, b) == subtract(a, b)

duplicated(matrix) == copy(matrix)

multiplyVector3(matrix, vector) ==
    [i \in 0..2 |->
        RAdd(RAdd(RMul(matrix[i], vector[0]), RMul(matrix[i + 4], vector[1])),
             RAdd(RMul(matrix[i + 8], vector[2]), RMul(matrix[i + 12], R(1))))]

fromXRotation(q) ==
    setValues(R(1), R(0), R(0), R(0),
              R(0), cos(q), RNeg(sin(q)), R(0),
              R(0), sin(q), cos(q), R(0),
              R(0), R(0), R(0), R(1))

fromYRotation(q) ==
    setValues(cos(q), R(0), sin(q), R(0),
              R(0), R(1), R(0), R(0),
              RNeg(sin(q)), R(0), cos(q), R(0),
              R(0), R(0), R(0), R(1))

fromZRotation(q) ==
    setValues(cos(q), RNeg(sin(q)), R(0), R(0),
              sin(q), cos(q), R(0), R(0),
              R(0), R(0), R(1), R(0),
              R(0), R(0), R(0), R(1))

\* index.html: the rotation is built in Matrix4x4.__temp and multiply works
\* in Matrix4x4.__temp2
rotatedByX(mat, q) == multiply(mat, fromXRotation(q))

rotatedByY(mat, q) == multiply(mat, fromYRotation(q))

rotatedByZ(mat, q) == multiply(mat, fromZRotation(q))

rotX(mat, q) == rotatedByX(mat, q)

rotY(mat, q) == rotatedByY(mat, q)

rotZ(mat, q) == rotatedByZ(mat, q)

\* server.js, Matrix4x4.multiply(a, b, out): the loop fills the scratch
\* matrix Matrix4x4.__temp, in which rotX/rotY/rotZ and rotatedByX/Y/Z have
\* just built the rotation they pass as b (bIsTemp)
server_multiply(a, b, bIsTemp) ==
    copy(multiplyLoop(a, b, IF bIsTemp THEN b ELSE identity, bIsTemp, 0))

server_rotatedByX(mat, q) == server_multiply(mat, fromXRotation(q), TRUE)

server_rotatedByY(mat, q) == server_multiply(mat, fromYRotation(q), TRUE)

server_rotatedByZ(mat, q) == server_multiply(mat, fromZRotation(q), TRUE)

server_rotX(mat, q) == server_multiply(mat, fromXRotation(q), TRUE)

server_rotY(mat, q) == server_multiply(mat, fromYRotation(q), TRUE)

server_rotZ(mat, q) == server_multiply(mat, fromZRotation(q), TRUE)

----------------------------------------------------------------------------
(* Space *)

\* new Space(ctx, screenX, ...) before its first updateViewMatrix
NewSpace(screenX, screenY, screenWidth, screenHeight, initialSpaceMin, initialSpaceMax, squareAspect) ==
    [screenX |-> screenX, screenY |-> screenY,
     screenWidth |-> screenWidth, screenHeight |-> screenHeight,
     initialSpaceMin |-> initialSpaceMin, initialSpaceMax |-> initialSpaceMax,
     squareAspect |-> squareAspect,
     scale |-> Vec(R(1), R(1), R(1)),
     translation |-> Vector3_zero,
     rotationMatrix |-> identity,
     matrix |-> identity,
     inverseMatrix |-> identity]

\* an updateViewMatrix whose inverse takes the rotation as it is, not transposed
updateViewMatrix_untransposed(sp, canvas) ==
    LET width  == R(canvas.width)
        height == R(canvas.height)
        left   == RMul(width, sp.screenX)
        top    == RMul(height, sp.screenY)
        minDim == RMin(RMul(height, sp.screenHeight), RMul(width, sp.screenWidth))
        xDim   == IF sp.squareAspect THEN minDim ELSE RMul(width, sp.screenWidth)
        yDim   == IF sp.squareAspect THEN minDim ELSE RMul(height, sp.screenHeight)
        zDim   == minDim
        spaceDif    == RSub(sp.initialSpaceMax, sp.initialSpaceMin)
        spaceOffset == ilerp(sp.initialSpaceMin, sp.initialSpaceMax, R(0))
        scale  == Vec(RDiv(xDim, spaceDif),
                      RNeg(RDiv(yDim, spaceDif)),
                      RNeg(RDiv(zDim, spaceDif)))
        translation ==
            Vec(RAdd(RMul(RMul(width, sp.screenWidth), spaceOffset), left),
                RSub(height, RAdd(RMul(RMul(height, sp.screenHeight), spaceOffset), top)),
                R(0))
        placed == setValues(scale[0], R(0), R(0), translation[0],
                            R(0), scale[1], R(0), translation[1],
                            R(0), R(0), scale[2], translation[2],
                            R(0), R(0), R(0), R(1))
        iSx == RDiv(R(1), scale[0])
        iSy == RDiv(R(1), scale[1])
        iSz == RDiv(R(1), scale[2])
        rot == sp.rotationMatrix
        iT  == Vector3_scaled(translation, R(-1))
        X   == Vec(RMul(iSx, rot[0]), RMul(iSy, rot[4]), RMul(iSz, rot[8]))
        Y   == Vec(RMul(iSx, rot[1]), RMul(iSy, rot[5]), RMul(iSz, rot[9]))
        Z   == Vec(RMul(iSx, rot[2]), RMul(iSy, rot[6]), RMul(iSz, rot[10]))
    IN  [sp EXCEPT
            !.scale = scale,
            !.translation = translation,
            !.matrix = multiply(placed, sp.rotationMatrix),
            !.inverseMatrix =
                setValues(X[0], X[1], X[2], Vector3_dotProduct(iT, X),
                          Y[0], Y[1], Y[2], Vector3_dotProduct(iT, Y),
                          Z[0], Z[1], Z[2], Vector3_dotProduct(iT, Z),
                          R(0), R(0), R(0), R(1))]

\* Space.updateViewMatrix on the canvas of the given pixel size
updateViewMatrix(sp, canvas) ==
    LET width  == R(canvas.width)
        height == R(canvas.height)
        left   == RMul(width, sp.screenX)
        top    == RMul(height, sp.screenY)
        minDim == RMin(RMul(height, sp.screenHeight), RMul(width, sp.screenWidth))
        xDim   == IF sp.squareAspect THEN minDim ELSE RMul(width, sp.screenWidth)
        yDim   == IF sp.squareAspect THEN minDim ELSE RMul(height, sp.screenHeight)
        zDim   == minDim
        spaceDif    == RSub(sp.initialSpaceMax, sp.initialSpaceMin)
        spaceOffset == ilerp(sp.initialSpaceMin, sp.initialSpaceMax, R(0))
        scale  == Vec(RDiv(xDim, spaceDif),
                      RNeg(RDiv(yDim, spaceDif)),
                      RNeg(RDiv(zDim, spaceDif)))
        translation ==
            Vec(RAdd(RMul(RMul(width, sp.screenWidth), spaceOffset), left),
                RSub(height, RAdd(RMul(RMul(height, sp.screenHeight), spaceOffset), top)),
                R(0))
        placed == setValues(scale[0], R(0), R(0), translation[0],
                            R(0), scale[1], R(0), translation[1],
                            R(0), R(0), scale[2], translation[2],
                            R(0), R(0), R(0), R(1))
        iSx == RDiv(R(1), scale[0])
        iSy == RDiv(R(1), scale[1])
        iSz == RDiv(R(1), scale[2])
        rot == sp.rotationMatrix
        iT  == Vector3_scaled(translation, R(-1))
        X   == Vec(RMul(iSx, rot[0]), RMul(iSy, rot[1]), RMul(iSz, rot[2]))
        Y   == Vec(RMul(iSx, rot[4]), RMul(iSy, rot[5]), RMul(iSz, rot[6]))
        Z   == Vec(RMul(iSx, rot[8]), RMul(iSy, rot[9]), RMul(iSz, rot[10]))
    IN  [sp EXCEPT
            !.scale = scale,
            !.translation = translation,
            !.matrix = multiply(placed, sp.rotationMatrix),
            !.inverseMatrix =
                setValues(X[0], X[1], X[2], Vector3_dotProduct(iT, X),
                          Y[0], Y[1], Y[2], Vector3_dotProduct(iT, Y),
                          Z[0], Z[1], Z[2], Vector3_dotProduct(iT, Z),
                          R(0), R(0), R(0), R(1))]

setSpaceRotationMatrix(sp, rotationMatrix, canvas) ==
    updateViewMatrix([sp EXCEPT !.rotationMatrix = copy(rotationMatrix)], canvas)

resetSpaceRotation(sp, canvas) ==
    updateViewMatrix([sp EXCEPT !.rotationMatrix = identity], canvas)

\* setSpaceRotation(xRadians, yRadians, zRadians), angles in quarter turns
setSpaceRotation(sp, xq, yq, zq, canvas) ==
    LET a == xq
        b == yq
        c == zq
        m == setValues(
            RMul(cos(a), cos(b)),
            RSub(RMul(RMul(cos(a), sin(b)), sin(c)), RMul(sin(a), cos(c))),
            RAdd(RMul(RMul(cos(a), sin(b)), cos(c)), RMul(sin(a), sin(c))),
            R(0),
            RMul(sin(a), cos(b)),
            RAdd(RMul(RMul(sin(a), sin(b)), sin(c)), RMul(cos(a), cos(c))),
            RSub(RMul(RMul(sin(a), sin(b)), cos(c)), RMul(cos(a), sin(c))),
            R(0),
            RNeg(sin(b)), RMul(cos(b), sin(c)), RMul(cos(b), cos(c)), R(0),
            R(0), R(0), R(0), R(1))
    IN  updateViewMatrix([sp EXCEPT !.rotationMatrix = m], canvas)

rotateSpaceByX(sp, q, canvas) ==
    updateViewMatrix([sp EXCEPT !.rotationMatrix = rotatedByX(sp.rotationMatrix, q)], canvas)

rotateSpaceByY(sp, q, canvas) ==
    updateViewMatrix([sp EXCEPT !.rotationMatrix = rotatedByY(sp.rotationMatrix, q)], canvas)

rotateSpaceByZ(sp, q, canvas) ==
    updateViewMatrix([sp EXCEPT !.rotationMatrix = rotatedByZ(sp.rotationMatrix, q)], canvas)

----------------------------------------------------------------------------
(* Bounds *)

\* mouse buttons 0 .. NumButtons-1 occur in events
NumButtons == 2

\* the playground loop() makes at most MaxCalls engine calls per frame
MaxCalls == 2

----------------------------------------------------------------------------
(* State *)

VARIABLES
    client,            \* canvas.clientWidth/Height times devicePixelRatio
    canvas,            \* canvas.width/height
    rawMousePosition,  \* Space.rawMousePosition
    mouseButtons,      \* Space.__mouseButtons
    clickedThisFrame,  \* Space.__mouseButtonsClickedThisFrame
    spaces,            \* the Spaces of beginMainLoop, by name ("GUI.ui" = GUI.ui.space)
    saved,             \* $state.saved: the values the playground feeds back to its widgets
    pc,                \* position of _loop ("idle": between two frames)
    calls,             \* widget calls made so far by the running loop()
    clickReports,      \* how many of them reported a click
    clearCount,        \* assignments of 0 to the clicked bitmask in this frame
    lastOp,            \* the event handled or the call made by the last step
    uses,              \* the matrices the last step drew or hit-tested with
    lab                \* operands and results of the engine calls made directly

vars == <<client, canvas, rawMousePosition, mouseButtons, clickedThisFrame,
          spaces, saved, pc, calls, clickReports, clearCount, lastOp, uses, lab>>

frameVars == <<client, canvas, rawMousePosition, mouseButtons, clickedThisFrame,
               spaces, saved, pc, calls, clickReports, clearCount, lastOp, uses>>

----------------------------------------------------------------------------
(* Space: pointer queries (they read the process-wide input state) *)

isMouseButtonHeld(buttonIndex) == BitAnd(mouseButtons, Pow2(buttonIndex)) > 0

wasMouseButtonClicked(buttonIndex) == BitAnd(clickedThisFrame, Pow2(buttonIndex)) > 0

getMousePositionUnclamped(sp, depth) ==
    multiplyVector3(sp.inverseMatrix,
                    Vec(rawMousePosition[0], rawMousePosition[1], depth))

\* a getMousePosition that does not clamp the pointer
getMousePosition_unclamped(sp, depth) == getMousePositionUnclamped(sp, depth)

getMousePosition(sp, depth) ==
    LET width  == R(canvas.width)
        height == R(canvas.height)
        rawPos == rawMousePosition
    IN  multiplyVector3(sp.inverseMatrix,
            Vec(clamp(RMul(sp.screenX, width),
                      RMul(RAdd(sp.screenX, sp.screenWidth), width),
                      rawPos[0]),
                RSub(height,
                     clamp(RMul(sp.screenY, height),
                           RMul(RAdd(sp.screenY, sp.screenHeight), height),
                           RSub(height, rawPos[1]))),
                depth))

isMouseWithinSpace(sp) ==
    LET width  == R(canvas.width)
        height == R(canvas.height)
        rawPos == rawMousePosition
    IN  /\ RLe(RMul(sp.screenX, width), rawPos[0])
        /\ RLe(rawPos[0], RMul(RAdd(sp.screenX, sp.screenWidth), width))
        /\ RLe(RMul(sp.screenY, height), RSub(height, rawPos[1]))
        /\ RLe(RSub(height, rawPos[1]), RMul(RAdd(sp.screenY, sp.screenHeight), height))

\* the pixel (px, py) of the canvas at the given depth, in the Space
cornerPoint(sp, px, py, depth) == multiplyVector3(sp.inverseMatrix, Vec(px, py, depth))

getTopLeftPoint(sp, depth) ==
    cornerPoint(sp, RMul(sp.screenX, R(canvas.width)),
                RMul(RSub(R(1), RAdd(sp.screenY, sp.screenHeight)), R(canvas.height)), depth)

getTopRightPoint(sp, depth) ==
    cornerPoint(sp, RMul(RAdd(sp.screenX, sp.screenWidth), R(canvas.width)),
                RMul(RSub(R(1), RAdd(sp.screenY, sp.screenHeight)), R(canvas.height)), depth)

getBottomRightPoint(sp, depth) ==
    cornerPoint(sp, RMul(RAdd(sp.screenX, sp.screenWidth), R(canvas.width)),
                RMul(RSub(R(1), sp.screenY), R(canvas.height)), depth)

getBottomLeftPoint(sp, depth) ==
    cornerPoint(sp, RMul(sp.screenX, R(canvas.width)),
                RMul(RSub(R(1), sp.screenY), R(canvas.height)), depth)

\* ctx.measureText under a font of fontPx pixels: the browser's metrics,
\* here half an em per character wide and two thirds of an em high
ctx_measureText(text, fontPx) ==
    [width  |-> RMul(fontPx, Rat(Len(text), 2)),
     height |-> RMul(fontPx, Rat(2, 3))]

\* Space.measureText(text, size): <<textWidth, textHeight>> in the Space's units
measureText(sp, text, size) ==
    LET scaleX    == RAbs(sp.scale[0])
        scaleY    == RAbs(sp.scale[1])
        spaceSize == RSub(sp.initialSpaceMax, sp.initialSpaceMin)
        fontPx    == RMul(RMul(RMul(size, scaleX), Rat(3, 1000)), spaceSize)
        m         == ctx_measureText(text, fontPx)
    IN  <<RDiv(m.width, scaleX), RDiv(m.height, scaleY)>>

----------------------------------------------------------------------------
(* UserInterface *)

UI_TEXT_SIZE == R(10)

\* a rectangle test that counts the edges as inside
isPointInRect_inclusive(point, x, y, width, height) ==
    /\ RLe(x, point[0]) /\ RLe(point[0], RAdd(x, width))
    /\ RLe(y, point[1]) /\ RLe(point[1], RAdd(y, height))

isPointInRect(point, x, y, width, height) ==
    /\ RLt(x, point[0]) /\ RLt(point[0], RAdd(x, width))
    /\ RLt(y, point[1]) /\ RLt(point[1], RAdd(y, height))

isPointInCircle(point, x, y, radius) ==
    RLt(RAdd(RMul(RSub(x, point[0]), RSub(x, point[0])),
             RMul(RSub(y, point[1]), RSub(y, point[1]))),
        RMul(radius, radius))

\* UserInterface.top(), bottom(), left(), right() of the ui on Space sp
UserInterface_top(sp) == getTopLeftPoint(sp, R(0))[1]

UserInterface_bottom(sp) == getBottomLeftPoint(sp, R(0))[1]

UserInterface_left(sp) == getTopLeftPoint(sp, R(0))[0]

UserInterface_right(sp) == getBottomLeftPoint(sp, R(0))[0]

isHoveringRect(sp, x, y, width, height) ==
    isPointInRect(getMousePosition(sp, R(0)), x, y, width, height)

isHoveringCircle(sp, x, y, radius) ==
    LET pos == getMousePosition(sp, R(0))
    IN  RLt(RAdd(RMul(RSub(x, pos[0]), RSub(x, pos[0])),
                 RMul(RSub(y, pos[1]), RSub(y, pos[1]))),
            RMul(radius, radius))

\* a button that fires while the primary button is held
button_whileHeld(sp, label, x, y) ==
    LET labelDims == measureText(sp, label, UI_TEXT_SIZE)
        padding   == RMul(labelDims[2], Rat(3, 10))
        width     == RAdd(labelDims[1], RMul(padding, R(2)))
        height    == RAdd(labelDims[2], RMul(padding, R(2)))
        isHovered == isHoveringRect(sp, x, y, width, height)
    IN  isHovered /\ isMouseButtonHeld(0)

\* UserInterface.button(label, x, y) on the ui Space sp: wentDown
button(sp, label, x, y) ==
    LET labelDims == measureText(sp, label, UI_TEXT_SIZE)
        padding   == RMul(labelDims[2], Rat(3, 10))
        width     == RAdd(labelDims[1], RMul(padding, R(2)))
        height    == RAdd(labelDims[2], RMul(padding, R(2)))
        isHovered == isHoveringRect(sp, x, y, width, height)
    IN  isHovered /\ wasMouseButtonClicked(0)

circleButton(sp, label, x, y) ==
    LET labelDims == measureText(sp, label, UI_TEXT_SIZE)
        padding   == RMul(labelDims[2], Rat(4, 10))
        width     == labelDims[1]
        radius    == RAdd(RMul(width, Rat(1, 2)), padding)
        isHovered == isHoveringCircle(sp, x, y, radius)
    IN  isHovered /\ wasMouseButtonClicked(0)

\* the isActive argument only chooses the fill colour
highlightButton(sp, label, isActive, x, y) ==
    LET labelDims == measureText(sp, label, UI_TEXT_SIZE)
        padding   == RMul(labelDims[2], Rat(3, 10))
        width     == RAdd(labelDims[1], RMul(padding, R(2)))
        height    == RAdd(labelDims[2], RMul(padding, R(2)))
        isHovered == isHoveringRect(sp, x, y, width, height)
    IN  isHovered /\ wasMouseButtonClicked(0)

\* UserInterface.slider(name, x, y, lo, hi, curr): the new value
\* a slider that follows the held pointer wherever it is
slider_saturating(sp, name, x, y, lo, hi, curr) ==
    LET labelDims == measureText(sp, name, UI_TEXT_SIZE)
        width     == R(25)
        sliderX   == RAdd(RAdd(x, R(2)), labelDims[1])
        mouse     == getMousePositionUnclamped(sp, R(0))
        newValue  == IF isMouseButtonHeld(0)
                     THEN linMap(sliderX, RAdd(sliderX, width), lo, hi, mouse[0])
                     ELSE curr
    IN  clamp(lo, hi, newValue)

\* a slider that returns newValue as it is
slider_unclamped(sp, name, x, y, lo, hi, curr) ==
    LET labelDims == measureText(sp, name, UI_TEXT_SIZE)
        sliderX   == RAdd(RAdd(x, R(2)), labelDims[1])
        mouse     == getMousePositionUnclamped(sp, R(0))
    IN  IF /\ isPointInRect(mouse, sliderX, y, R(25), R(3))
           /\ isMouseButtonHeld(0)
        THEN linMap(sliderX, RAdd(sliderX, R(25)), lo, hi, mouse[0])
        ELSE curr

slider(sp, name, x, y, lo, hi, curr) ==
    LET labelDims == measureText(sp, name, UI_TEXT_SIZE)
        width     == R(25)
        height    == R(3)
        sliderX   == RAdd(RAdd(x, R(2)), labelDims[1])
        mouse     == getMousePositionUnclamped(sp, R(0))
        newValue  == IF /\ isPointInRect(mouse, sliderX, y, width, height)
                        /\ isMouseButtonHeld(0)
                     THEN linMap(sliderX, RAdd(sliderX, width), lo, hi, mouse[0])
                     ELSE curr
    IN  clamp(lo, hi, newValue)

\* a checkbox that toggles while button 0 is held down
checkbox_whileHeld(sp, name, x, y, state) ==
    LET labelDims == measureText(sp, name, UI_TEXT_SIZE)
        checkboxX == RAdd(RAdd(x, R(2)), labelDims[1])
    IN  IF /\ isHoveringRect(sp, checkboxX, y, R(3), R(3))
           /\ isMouseButtonHeld(0)
        THEN ~state ELSE state

\* UserInterface.checkbox(name, x, y, state): the new state
checkbox(sp, name, x, y, state) ==
    LET labelDims == measureText(sp, name, UI_TEXT_SIZE)
        height    == R(3)
        checkboxX == RAdd(RAdd(x, R(2)), labelDims[1])
    IN  IF /\ isHoveringRect(sp, checkboxX, y, height, height)
           /\ wasMouseButtonClicked(0)
        THEN ~state ELSE state

----------------------------------------------------------------------------
(* The page: beginMainLoop, the input listeners and the playground *)

\* sizes the browser window gives the canvas (device pixels)
Sizes == {[width |-> 200, height |-> 200], [width |-> 400, height |-> 400]}

\* pointer positions (clientX, clientY) of the mouse events
Pointers == {<<106, 109>>, <<114, 129>>}

Buttons == 0 .. NumButtons - 1

\* values of mouseEvent.buttons: no button, or the primary button, held
ButtonMasks == {0, 1}

\* the Views in the order in which Spaces.onFrameEnd enumerates them
ViewNames == <<"Front", "Perspective", "Top", "GUI">>

UiOf(view) == view \o ".ui"

Half == Rat(1, 2)

\* new Spaces(ctx): every constructor ends with updateViewMatrix
NewSpaces(cv) ==
    LET view(x, y) == updateViewMatrix(NewSpace(x, y, Half, Half, R(-1), R(1), TRUE), cv)
        ui(x, y)   == updateViewMatrix(NewSpace(x, y, Half, Half, R(0), R(100), TRUE), cv)
    IN  [n \in {"Front", "Perspective", "Top", "GUI", "Frames",
                "Front.ui", "Perspective.ui", "Top.ui", "GUI.ui"} |->
            CASE n = "Front"          -> view(R(0), Half)
              [] n = "Front.ui"       -> ui(R(0), Half)
              [] n = "Perspective"    -> view(Half, Half)
              [] n = "Perspective.ui" -> ui(Half, Half)
              [] n = "Top"            -> view(R(0), R(0))
              [] n = "Top.ui"         -> ui(R(0), R(0))
              [] n = "GUI"            -> view(Half, R(0))
              [] n = "GUI.ui"         -> ui(Half, R(0))
              [] OTHER                -> updateViewMatrix(
                                            NewSpace(R(0), R(0), R(1), R(1), R(0), R(1), FALSE), cv)]

\* the default values of $state.saved that the playground's widgets use
savedDefaults == [check |-> FALSE, slider |-> R(5)]

\* The playground: loop() is the page author's code.  It may call these
\* widgets, in any order and number up to MaxCalls per frame.
Widgets ==
    << [view |-> "GUI",   kind |-> "button",          label |-> "Reset State", x |-> R(5),  y |-> R(90)],
       [view |-> "GUI",   kind |-> "highlightButton", label |-> "Anim1",       x |-> R(5),  y |-> R(89)],
       [view |-> "GUI",   kind |-> "checkbox",        label |-> "Anim",        x |-> R(5),  y |-> R(70)],
       [view |-> "GUI",   kind |-> "circleButton",    label |-> "Cir",         x |-> R(8),  y |-> R(91)],
       [view |-> "GUI",   kind |-> "slider",          label |-> "Rx",          x |-> R(5),  y |-> R(70)],
       [view |-> "Front", kind |-> "button",          label |-> "Corner",      x |-> R(95), y |-> R(-1)] >>

SliderLo == R(0)

SliderHi == R(10)

ClickKinds == {"button", "highlightButton", "circleButton", "checkbox"}

\* what a draw call (kind "draw", forward matrix) or a pointer query
\* (kind "hit", inverse matrix) on the Space sp worked with
Use(name, sp, kind, cv) ==
    [space |-> name, kind |-> kind,
     matrix |-> IF kind = "draw" THEN sp.matrix ELSE sp.inverseMatrix,
     canvas |-> cv, rotationMatrix |-> sp.rotationMatrix]

Op(op, arg, result) == [op |-> op, arg |-> arg, result |-> result]

InitFrame ==
    /\ client \in Sizes
    /\ canvas = client
    /\ rawMousePosition = Vector3_zero
    /\ mouseButtons = 0
    /\ clickedThisFrame = 0
    /\ spaces = NewSpaces(canvas)
    /\ saved = savedDefaults
    /\ pc = "idle"
    /\ calls = 0
    /\ clickReports = 0
    /\ clearCount = 0
    /\ lastOp = Op("beginMainLoop", 0, FALSE)
    /\ uses = << >>

Init == InitFrame /\ lab = << >>

(* Input listeners: JavaScript runs them between two frames *)

onMouseMove(buttons, clientX, clientY) ==
    /\ pc = "idle"
    /\ mouseButtons' = buttons
    /\ rawMousePosition' =
          Vec(RDiv(RMul(R(clientX), R(canvas.width)), R(client.width)),
              RDiv(RMul(R(clientY), R(canvas.height)), R(client.height)),
              R(0))
    /\ lastOp' = Op("mousemove", 0, FALSE)
    /\ uses' = << >>
    /\ UNCHANGED <<client, canvas, clickedThisFrame, spaces, saved, pc, calls,
                   clickReports, clearCount, lab>>

\* a click handler that stores the button's bit instead of OR-ing it in
onMouseClick_overwriting(whichButton, buttons) ==
    /\ pc = "idle"
    /\ mouseButtons' = buttons
    /\ clickedThisFrame' = Pow2(whichButton)
    /\ lastOp' = Op("click", whichButton, FALSE)
    /\ uses' = << >>
    /\ UNCHANGED <<client, canvas, rawMousePosition, spaces, saved, pc, calls,
                   clickReports, clearCount, lab>>

onMouseClick(whichButton, buttons) ==
    /\ pc = "idle"
    /\ mouseButtons' = buttons
    /\ clickedThisFrame' = BitOr(clickedThisFrame, Pow2(whichButton))
    /\ lastOp' = Op("click", whichButton, FALSE)
    /\ uses' = << >>
    /\ UNCHANGED <<client, canvas, rawMousePosition, spaces, saved, pc, calls,
                   clickReports, clearCount, lab>>

onMouseDown(buttons) ==
    /\ pc = "idle"
    /\ mouseButtons' = buttons
    /\ lastOp' = Op("mousedown", 0, FALSE)
    /\ uses' = << >>
    /\ UNCHANGED <<client, canvas, rawMousePosition, clickedThisFrame, spaces, saved,
                   pc, calls, clickReports, clearCount, lab>>

onMouseUp(buttons) ==
    /\ pc = "idle"
    /\ mouseButtons' = buttons
    /\ lastOp' = Op("mouseup", 0, FALSE)
    /\ uses' = << >>
    /\ UNCHANGED <<client, canvas, rawMousePosition, clickedThisFrame, spaces, saved,
                   pc, calls, clickReports, clearCount, lab>>

\* the browser window is resized: the canvas element gets a new client size
WindowResize(size) ==
    /\ pc = "idle"
    /\ size # client
    /\ client' = size
    /\ lastOp' = Op("resize", 0, FALSE)
    /\ uses' = << >>
    /\ UNCHANGED <<canvas, rawMousePosition, mouseButtons, clickedThisFrame, spaces,
                   saved, pc, calls, clickReports, clearCount, lab>>

(* _loop, the frame: one step per statement group, no event in between *)

\* Space.autoResize(ctx)
autoResize(cv) == IF client # cv THEN client ELSE cv

\* setTimeout fires _loop, which begins with Space.autoResize(ctx)
FrameBegin ==
    /\ pc = "idle"
    /\ canvas' = autoResize(canvas)
    /\ pc' = "Frames"
    /\ clearCount' = 0
    /\ lastOp' = Op("autoResize", 0, FALSE)
    /\ uses' = << >>
    /\ UNCHANGED <<client, rawMousePosition, mouseButtons, clickedThisFrame, spaces,
                   saved, calls, clickReports, lab>>

\* Frames.resetSpaceRotation(); Frames.background(..); Frames.rectXY(..) x 4
DrawFrames ==
    /\ pc = "Frames"
    /\ spaces' = [spaces EXCEPT !["Frames"] = resetSpaceRotation(@, canvas)]
    /\ uses' = << Use("Frames", spaces'["Frames"], "draw", canvas) >>
    /\ pc' = "Perspective"
    /\ lastOp' = Op("Frames.rectXY", 0, FALSE)
    /\ UNCHANGED <<client, canvas, rawMousePosition, mouseButtons, clickedThisFrame,
                   saved, calls, clickReports, clearCount, lab>>

\* Perspective.axes(1, 6, ..)
PerspectiveAxes ==
    /\ pc = "Perspective"
    /\ uses' = << Use("Perspective", spaces["Perspective"], "draw", canvas) >>
    /\ pc' = "Front"
    /\ lastOp' = Op("Perspective.axes", 0, FALSE)
    /\ UNCHANGED <<client, canvas, rawMousePosition, mouseButtons, clickedThisFrame,
                   spaces, saved, calls, clickReports, clearCount, lab>>

\* Front.setSpaceRotation(0, 0, -TAU / 4); Front.axes(1, 6, ..)
FrontAxes ==
    /\ pc = "Front"
    /\ spaces' = [spaces EXCEPT !["Front"] = setSpaceRotation(@, 0, 0, -1, canvas)]
    /\ uses' = << Use("Front", spaces'["Front"], "draw", canvas) >>
    /\ pc' = "Top"
    /\ lastOp' = Op("Front.axes", 0, FALSE)
    /\ UNCHANGED <<client, canvas, rawMousePosition, mouseButtons, clickedThisFrame,
                   saved, calls, clickReports, clearCount, lab>>

\* Top.setSpaceRotation(0, 0, 0); Top.axes(1, 6, ..)
TopAxes ==
    /\ pc = "Top"
    /\ spaces' = [spaces EXCEPT !["Top"] = setSpaceRotation(@, 0, 0, 0, canvas)]
    /\ uses' = << Use("Top", spaces'["Top"], "draw", canvas) >>
    /\ pc' = "loop"
    /\ lastOp' = Op("Top.axes", 0, FALSE)
    /\ UNCHANGED <<client, canvas, rawMousePosition, mouseButtons, clickedThisFrame,
                   saved, calls, clickReports, clearCount, lab>>

\* the value the widget call w returns
WidgetResult(w) ==
    LET d  == Widgets[w]
        sp == spaces[UiOf(d.view)]
    IN  CASE d.kind = "button"          -> button(sp, d.label, d.x, d.y)
          [] d.kind = "highlightButton" -> highlightButton(sp, d.label, FALSE, d.x, d.y)
          [] d.kind = "circleButton"    -> circleButton(sp, d.label, d.x, d.y)
          [] d.kind = "checkbox"        -> checkbox(sp, d.label, d.x, d.y, saved.check)
          [] OTHER                      -> slider(sp, d.label, d.x, d.y,
                                                  SliderLo, SliderHi, saved.slider)

\* whether the widget call w reports a click
ReportsClick(w, result) ==
    CASE Widgets[w].kind = "checkbox" -> result # saved.check
      [] Widgets[w].kind = "slider"   -> FALSE
      [] OTHER                        -> result

\* loop() calls widget w and feeds its result back into $state.saved;
\* 'Reset State' calls $state.reset()
CallWidget(w) ==
    /\ pc = "loop"
    /\ calls < MaxCalls
    /\ LET d      == Widgets[w]
           name   == UiOf(d.view)
           result == WidgetResult(w)
       IN  /\ lastOp' = Op(d.kind, w, result)
           /\ uses' = << Use(name, spaces[name], "hit", canvas),
                         Use(name, spaces[name], "draw", canvas) >>
           /\ clickReports' = clickReports + (IF ReportsClick(w, result) THEN 1 ELSE 0)
           /\ saved' = CASE d.kind = "checkbox" -> [saved EXCEPT !.check = result]
                         [] d.kind = "slider"   -> [saved EXCEPT !.slider = result]
                         [] w = 1 /\ result     -> savedDefaults
                         [] OTHER               -> saved
    /\ calls' = calls + 1
    /\ UNCHANGED <<client, canvas, rawMousePosition, mouseButtons, clickedThisFrame,
                   spaces, pc, clearCount, lab>>

\* the end of loop(): the View labels and drawLeds on Front, Perspective, Top
LoopDraw ==
    /\ pc = "loop"
    /\ uses' = << Use("Front.ui", spaces["Front.ui"], "draw", canvas),
                  Use("Front", spaces["Front"], "draw", canvas),
                  Use("Perspective.ui", spaces["Perspective.ui"], "draw", canvas),
                  Use("Perspective", spaces["Perspective"], "draw", canvas),
                  Use("Top.ui", spaces["Top.ui"], "draw", canvas),
                  Use("Top", spaces["Top"], "draw", canvas) >>
    /\ pc' = "onFrameEnd.Front"
    /\ calls' = 0
    /\ clickReports' = 0
    /\ lastOp' = Op("drawLeds", 0, FALSE)
    /\ UNCHANGED <<client, canvas, rawMousePosition, mouseButtons, clickedThisFrame,
                   spaces, saved, clearCount, lab>>

EndPc(i) == IF i > Len(ViewNames) THEN "Space.onFrameEnd"
            ELSE "onFrameEnd." \o ViewNames[i]

\* a View.onFrameEnd that also resets the per-frame input state
ViewOnFrameEnd_clearing(i) ==
    /\ pc = EndPc(i)
    /\ spaces' = [spaces EXCEPT
                    ![ViewNames[i]] = updateViewMatrix(@, canvas),
                    ![UiOf(ViewNames[i])] = updateViewMatrix(@, canvas)]
    /\ clickedThisFrame' = 0
    /\ clearCount' = clearCount + 1
    /\ pc' = EndPc(i + 1)
    /\ lastOp' = Op("View.onFrameEnd", i, FALSE)
    /\ uses' = << >>
    /\ UNCHANGED <<client, canvas, rawMousePosition, mouseButtons,
                   saved, calls, clickReports, lab>>

\* spaces.onFrameEnd(), View i: View.onFrameEnd() and its ui.onFrameEnd()
ViewOnFrameEnd(i) ==
    /\ pc = EndPc(i)
    /\ spaces' = [spaces EXCEPT
                    ![ViewNames[i]] = updateViewMatrix(@, canvas),
                    ![UiOf(ViewNames[i])] = updateViewMatrix(@, canvas)]
    /\ pc' = EndPc(i + 1)
    /\ lastOp' = Op("View.onFrameEnd", i, FALSE)
    /\ uses' = << >>
    /\ UNCHANGED <<client, canvas, rawMousePosition, mouseButtons, clickedThisFrame,
                   saved, calls, clickReports, clearCount, lab>>

\* Space.onFrameEnd(), then setTimeout(_loop, ..) arms the next frame
SpaceOnFrameEnd ==
    /\ pc = "Space.onFrameEnd"
    /\ clickedThisFrame' = 0
    /\ clearCount' = clearCount + 1
    /\ pc' = "idle"
    /\ lastOp' = Op("Space.onFrameEnd", 0, FALSE)
    /\ uses' = << >>
    /\ UNCHANGED <<client, canvas, rawMousePosition, mouseButtons, spaces, saved,
                   calls, clickReports, lab>>

Next ==
    \/ \E b \in ButtonMasks, p \in Pointers : onMouseMove(b, p[1], p[2])
    \/ \E k \in Buttons, b \in ButtonMasks : onMouseClick(k, b)
    \/ \E b \in ButtonMasks : onMouseDown(b)
    \/ \E b \in ButtonMasks : onMouseUp(b)
    \/ \E size \in Sizes : WindowResize(size)
    \/ FrameBegin
    \/ DrawFrames
    \/ PerspectiveAxes
    \/ FrontAxes
    \/ TopAxes
    \/ \E w \in 1 .. Len(Widgets) : CallWidget(w)
    \/ LoopDraw
    \/ \E i \in 1 .. Len(ViewNames) : ViewOnFrameEnd(i)
    \/ SpaceOnFrameEnd

Spec == Init /\ [][Next]_vars

----------------------------------------------------------------------------
(* Properties of the frame driver and the input state *)

\* C1: after a click event for button b, wasMouseButtonClicked(b) is true
\* until the next Space.onFrameEnd() and false after it until another click
\* for b; clicks are OR-accumulated, and mouse move/down/up events never
\* change the clicked-this-frame bitmask.
C1_ClickBitLifecycle ==
    [][ \A b \in Buttons :
          /\ lastOp' = Op("click", b, FALSE) => wasMouseButtonClicked(b)'
          /\ (wasMouseButtonClicked(b) /\ lastOp'.op # "Space.onFrameEnd")
                => wasMouseButtonClicked(b)'
          /\ lastOp'.op = "Space.onFrameEnd" => ~wasMouseButtonClicked(b)'
          /\ (~wasMouseButtonClicked(b) /\ lastOp' # Op("click", b, FALSE))
                => ~wasMouseButtonClicked(b)'
          /\ lastOp'.op \in {"mousemove", "mousedown", "mouseup"}
                => clickedThisFrame' = clickedThisFrame ]_vars

\* clicks of two different buttons are both still pending when the frame
\* reaches its global frame-end call
C1_Witness ==
    /\ pc = "Space.onFrameEnd"
    /\ wasMouseButtonClicked(0)
    /\ wasMouseButtonClicked(1)

\* C2: in every frame the clicked-this-frame bitmask is cleared exactly
\* once, by Space.onFrameEnd(), after every widget call of loop(); the
\* per-View frame-end calls never clear it.
C2_ClearedOncePerFrame ==
    [][ /\ (pc # "idle" /\ pc' = "idle") => (clearCount' = 1 /\ clickedThisFrame' = 0)
        /\ calls' = calls + 1 => (clearCount = 0 /\ clearCount' = 0)
        /\ lastOp'.op = "View.onFrameEnd"
              => (clickedThisFrame' = clickedThisFrame /\ clearCount' = clearCount)
        /\ (pc # "idle" /\ clickedThisFrame' # clickedThisFrame)
              => pc = "Space.onFrameEnd"
        /\ clearCount' > clearCount
              => (clearCount' = clearCount + 1 /\ pc = "Space.onFrameEnd") ]_vars

\* every View's frame-end call has run and the click is still pending
C2_Witness ==
    /\ pc = "Space.onFrameEnd"
    /\ clickedThisFrame # 0
    /\ clearCount = 0

\* C3: every draw call and every pointer query of a frame works with the
\* matrix (inverse matrix) that updateViewMatrix computes from the canvas
\* size Space.autoResize established for that frame and from the Space's
\* rotation at that moment.
C3_MatrixUpdatedBeforeUse ==
    \A k \in 1 .. Len(uses) :
        LET u     == uses[k]
            fresh == updateViewMatrix(
                        [spaces[u.space] EXCEPT !.rotationMatrix = u.rotationMatrix],
                        u.canvas)
        IN  u.matrix = IF u.kind = "draw" THEN fresh.matrix ELSE fresh.inverseMatrix

\* C4 as stated: at most one widget call of a frame reports the click
C4_FirstWidgetWins == clickReports <= 1

\* the pointer, clamped into the Space's screen rectangle, in canvas pixels
ClampedPointer(sp) ==
    LET width  == R(canvas.width)
        height == R(canvas.height)
        left   == RMul(sp.screenX, width)
        right  == RMul(RAdd(sp.screenX, sp.screenWidth), width)
        top    == RSub(height, RMul(RAdd(sp.screenY, sp.screenHeight), height))
        bottom == RSub(height, RMul(sp.screenY, height))
    IN  <<RMax(left, RMin(right, rawMousePosition[0])),
          RMax(top, RMin(bottom, rawMousePosition[1]))>>

\* whether the pixel p lies strictly inside what widget w draws on the
\* canvas: the rectangle with corners matrix * (x, y) and
\* matrix * (x + width, y + height), or the ellipse around matrix * (x, y)
\* with radii rx and ry (the vertical offset is rescaled to the x radius)
PixelInsideDrawn(w, p) ==
    LET d    == Widgets[w]
        sp   == spaces[UiOf(d.view)]
        dims == measureText(sp, d.label, UI_TEXT_SIZE)
        pad  == RMul(dims[2], Rat(3, 10))
        rect == IF d.kind = "checkbox"
                THEN [x |-> RAdd(RAdd(d.x, R(2)), dims[1]), y |-> d.y,
                      w |-> R(3), h |-> R(3)]
                ELSE [x |-> d.x, y |-> d.y,
                      w |-> RAdd(dims[1], RMul(pad, R(2))),
                      h |-> RAdd(dims[2], RMul(pad, R(2)))]
        c1   == multiplyVector3(sp.matrix, Vec(rect.x, rect.y, R(0)))
        c2   == multiplyVector3(sp.matrix,
                                Vec(RAdd(rect.x, rect.w), RAdd(rect.y, rect.h), R(0)))
        ctr  == multiplyVector3(sp.matrix, Vec(d.x, d.y, R(0)))
        rad  == RAdd(RMul(dims[1], Half), RMul(dims[2], Rat(4, 10)))
        rx   == RMul(rad, RAbs(sp.scale[0]))
        ry   == RMul(rad, RAbs(sp.scale[1]))
        ex   == RSub(p[1], ctr[0])
        ey   == RMul(RSub(p[2], ctr[1]), RDiv(rx, ry))
    IN  IF d.kind = "circleButton"
        THEN RLt(RAdd(RMul(ex, ex), RMul(ey, ey)), RMul(rx, rx))
        ELSE /\ RLt(RMin(c1[0], c2[0]), p[1]) /\ RLt(p[1], RMax(c1[0], c2[0]))
             /\ RLt(RMin(c1[1], c2[1]), p[2]) /\ RLt(p[2], RMax(c1[1], c2[1]))

\* C4 (amended): a click is not consumed.  A button, highlightButton,
\* circleButton or checkbox call reports a click exactly when bit 0 of the
\* clicked-this-frame bitmask is set and the pointer, clamped into the
\* View's rectangle, lies strictly inside what the widget draws, whatever
\* earlier calls of the frame have reported.
C4_EveryHoveredWidgetReports ==
    [][ (calls' = calls + 1 /\ Widgets[lastOp'.arg].kind \in ClickKinds)
          => ( (clickReports' = clickReports + 1)
                 <=> ( /\ wasMouseButtonClicked(0)
                       /\ PixelInsideDrawn(lastOp'.arg,
                             ClampedPointer(spaces[UiOf(Widgets[lastOp'.arg].view)])) ) )
      ]_vars

\* two widget calls of one frame have reported the same click
C4_Witness == pc = "loop" /\ clickReports = 2

\* C16: a checkbox call returns the opposite of state exactly when the
\* pointer hovers the checkbox square and button 0 was clicked this frame,
\* and state otherwise; as the pending click is dropped at the end of the
\* frame and only a new click raises it again, a frame driver that calls
\* the checkbox once per frame and feeds the result back flips the state
\* exactly once per click however many further frames run.
C16_CheckboxFlipsOncePerClick ==
    [][ /\ (lastOp'.op = "checkbox" /\ calls' = calls + 1)
              => saved'.check =
                    (IF /\ PixelInsideDrawn(lastOp'.arg, ClampedPointer(spaces["GUI.ui"]))
                        /\ wasMouseButtonClicked(0)
                     THEN ~saved.check ELSE saved.check)
        /\ saved'.check # saved.check
              => /\ calls' = calls + 1
                 /\ lastOp'.op = "checkbox" \/ lastOp' = Op("button", 1, TRUE)
        /\ (pc # "idle" /\ pc' = "idle") => ~wasMouseButtonClicked(0)'
        /\ (~wasMouseButtonClicked(0) /\ wasMouseButtonClicked(0)')
              => lastOp' = Op("click", 0, FALSE) ]_vars

\* a later frame calls the checkbox that an earlier click has switched on:
\* the pointer still hovers it, no click is pending, it stays on
C16_Witness ==
    /\ pc = "loop"
    /\ lastOp = Op("checkbox", 3, TRUE)
    /\ saved.check
    /\ ~wasMouseButtonClicked(0)
    /\ PixelInsideDrawn(3, ClampedPointer(spaces["GUI.ui"]))

----------------------------------------------------------------------------
(* A Space on its own: the rotation calls, made in any order *)

\* rotation angles are 0 .. MaxQuarter quarter turns
MaxQuarter == 3

Quarters == 0 .. MaxQuarter

\* canvas sizes a lone Space is tried on
LabSizes == {[width |-> 200, height |-> 200], [width |-> 400, height |-> 200]}

\* the Spaces the page constructs: a View's world Space, its ui Space and
\* the Frames Space
LabSpaces ==
    { NewSpace(R(0), Half, Half, Half, R(-1), R(1), TRUE),
      NewSpace(Half, R(0), Half, Half, R(0), R(100), TRUE),
      NewSpace(R(0), R(0), R(1), R(1), R(0), R(1), FALSE) }

\* rotation matrices handed to setSpaceRotationMatrix
LabRotations ==
    { multiply(fromXRotation(1), fromZRotation(1)),
      multiply(fromYRotation(3), fromXRotation(2)) }

\* the page at rest: no frame runs while engine calls are made directly
PageAtRest ==
    /\ client = [width |-> 200, height |-> 200]
    /\ InitFrame

SpaceCall(sp, cv, op, args) == [sp |-> sp, cv |-> cv, op |-> op, args |-> args]

SpaceInit ==
    /\ PageAtRest
    /\ \E s \in LabSpaces, cv \in LabSizes :
          lab = SpaceCall(updateViewMatrix(s, cv), cv, "new Space", << >>)

Space_setSpaceRotation(x, y, z) ==
    /\ lab' = SpaceCall(setSpaceRotation(lab.sp, x, y, z, lab.cv), lab.cv,
                        "setSpaceRotation", <<x, y, z>>)
    /\ UNCHANGED frameVars

Space_rotateSpaceByX(q) ==
    /\ lab' = SpaceCall(rotateSpaceByX(lab.sp, q, lab.cv), lab.cv,
                        "rotateSpaceByX", << >>)
    /\ UNCHANGED frameVars

Space_rotateSpaceByY(q) ==
    /\ lab' = SpaceCall(rotateSpaceByY(lab.sp, q, lab.cv), lab.cv,
                        "rotateSpaceByY", << >>)
    /\ UNCHANGED frameVars

Space_rotateSpaceByZ(q) ==
    /\ lab' = SpaceCall(rotateSpaceByZ(lab.sp, q, lab.cv), lab.cv,
                        "rotateSpaceByZ", << >>)
    /\ UNCHANGED frameVars

Space_resetSpaceRotation ==
    /\ lab' = SpaceCall(resetSpaceRotation(lab.sp, lab.cv), lab.cv,
                        "resetSpaceRotation", << >>)
    /\ UNCHANGED frameVars

Space_setSpaceRotationMatrix(m) ==
    /\ lab' = SpaceCall(setSpaceRotationMatrix(lab.sp, m, lab.cv), lab.cv,
                        "setSpaceRotationMatrix", << >>)
    /\ UNCHANGED frameVars

\* the canvas takes another size; the Space's matrices stay as they are
Space_canvasResized(size) ==
    /\ size # lab.cv
    /\ lab' = SpaceCall(lab.sp, size, "resize", << >>)
    /\ UNCHANGED frameVars

Space_updateViewMatrix ==
    /\ lab' = SpaceCall(updateViewMatrix(lab.sp, lab.cv), lab.cv,
                        "updateViewMatrix", << >>)
    /\ UNCHANGED frameVars

SpaceNext ==
    \/ \E x \in Quarters, y \in Quarters, z \in Quarters : Space_setSpaceRotation(x, y, z)
    \/ \E q \in Quarters : Space_rotateSpaceByX(q)
    \/ \E q \in Quarters : Space_rotateSpaceByY(q)
    \/ \E q \in Quarters : Space_rotateSpaceByZ(q)
    \/ Space_resetSpaceRotation
    \/ \E m \in LabRotations : Space_setSpaceRotationMatrix(m)
    \/ \E size \in LabSizes : Space_canvasResized(size)
    \/ Space_updateViewMatrix

SpecSpace == SpaceInit /\ [][SpaceNext]_vars

\* the origin and the three unit points: an affine map that fixes them
\* fixes every point
LabPoints ==
    { Vec(R(0), R(0), R(0)), Vec(R(1), R(0), R(0)),
      Vec(R(0), R(1), R(0)), Vec(R(0), R(0), R(1)),
      Vec(Rat(-5, 2), R(7), Rat(1, 3)) }

\* C5: after construction and after any sequence of rotation calls and
\* updateViewMatrix calls, the inverse matrix applied to the forward matrix
\* applied to P gives P, for every logical point P.
C5_InverseOfForward ==
    \A P \in LabPoints :
        multiplyVector3(lab.sp.inverseMatrix, multiplyVector3(lab.sp.matrix, P)) = P

\* a Space that is not square, rotated by a matrix that is not the
\* identity, on a canvas other than the smallest one
C5_Witness ==
    /\ lab.op = "rotateSpaceByY"
    /\ lab.sp.rotationMatrix # identity
    /\ ~lab.sp.squareAspect
    /\ lab.cv.width = 400
    /\ lab.sp.scale[0] = R(400)

\* C6: setSpaceRotation(x, y, z) sets the rotation matrix to
\* rotatedByZ(rotatedByY(rotatedByX(identity, x), y), z).
C6_SetSpaceRotationComposes ==
    lab.op = "setSpaceRotation"
        => lab.sp.rotationMatrix =
              rotatedByZ(rotatedByY(rotatedByX(identity, lab.args[1]),
                                    lab.args[2]), lab.args[3])

----------------------------------------------------------------------------
(* Matrix4x4 on its own: every public operation applied to drawn operands *)

\* a matrix of the form updateViewMatrix places: scale and translation
Placed(sx, sy, sz, tx, ty, tz) ==
    setValues(R(sx), R(0), R(0), R(tx),
              R(0), R(sy), R(0), R(ty),
              R(0), R(0), R(sz), R(tz),
              R(0), R(0), R(0), R(1))

\* the operands: all of them have the last row (0, 0, 0, 1)
LabMatrices ==
    { identity,
      fromZRotation(1),
      Placed(2, -3, -5, 7, 11, 13),
      multiply(Placed(2, -3, -5, 7, 11, 13), fromXRotation(1)),
      multiply(fromYRotation(3), Placed(1, 1, 1, -4, 0, 9)) }

Axes == {"X", "Y", "Z"}

fromRotation(axis, q) ==
    CASE axis = "X" -> fromXRotation(q)
      [] axis = "Y" -> fromYRotation(q)
      [] OTHER      -> fromZRotation(q)

MatrixCall(op, a, b, out) == [op |-> op, a |-> a, b |-> b, out |-> out]

MatrixInit ==
    /\ PageAtRest
    /\ \E a \in LabMatrices, b \in LabMatrices : lab = MatrixCall("operands", a, b, a)

Matrix_identity ==
    /\ lab' = [lab EXCEPT !.op = "identity", !.out = identity]
    /\ UNCHANGED frameVars

Matrix_fromRotation(axis, q) ==
    /\ lab' = [lab EXCEPT !.op = "fromRotation", !.out = fromRotation(axis, q)]
    /\ UNCHANGED frameVars

\* Matrix4x4.rotatedByX/Y/Z(a, radians, out), the page's engine
Matrix_rotatedBy(axis, q) ==
    /\ lab' = MatrixCall("rotatedBy", lab.a, fromRotation(axis, q),
                         CASE axis = "X" -> rotatedByX(lab.a, q)
                           [] axis = "Y" -> rotatedByY(lab.a, q)
                           [] OTHER      -> rotatedByZ(lab.a, q))
    /\ UNCHANGED frameVars

\* a.rotX/rotY/rotZ(radians), the page's engine
Matrix_rot(axis, q) ==
    /\ lab' = MatrixCall("rot", lab.a, fromRotation(axis, q),
                         CASE axis = "X" -> rotX(lab.a, q)
                           [] axis = "Y" -> rotY(lab.a, q)
                           [] OTHER      -> rotZ(lab.a, q))
    /\ UNCHANGED frameVars

\* Matrix4x4.multiply(a, b, out) for any out, a and b included
Matrix_multiply(b) ==
    /\ lab' = MatrixCall("multiply", lab.a, b, multiply(lab.a, b))
    /\ UNCHANGED frameVars

Matrix_times(b) ==
    /\ lab' = MatrixCall("times", lab.a, b, times(lab.a, b))
    /\ UNCHANGED frameVars

Matrix_plus(b) ==
    /\ lab' = MatrixCall("plus", lab.a, b, plus(lab.a, b))
    /\ UNCHANGED frameVars

Matrix_minus(b) ==
    /\ lab' = MatrixCall("minus", lab.a, b, minus(lab.a, b))
    /\ UNCHANGED frameVars

Matrix_duplicated ==
    /\ lab' = [lab EXCEPT !.op = "duplicated", !.out = duplicated(lab.a)]
    /\ UNCHANGED frameVars

\* server.js: Matrix4x4.multiply(a, b, out) with operands of the caller
Matrix_server_multiply(b) ==
    /\ lab' = MatrixCall("server.multiply", lab.a, b, server_multiply(lab.a, b, FALSE))
    /\ UNCHANGED frameVars

\* server.js: Matrix4x4.rotatedByX/Y/Z(a, radians, out)
Matrix_server_rotatedBy(axis, q) ==
    /\ lab' = MatrixCall("server.rotatedBy", lab.a, fromRotation(axis, q),
                         CASE axis = "X" -> server_rotatedByX(lab.a, q)
                           [] axis = "Y" -> server_rotatedByY(lab.a, q)
                           [] OTHER      -> server_rotatedByZ(lab.a, q))
    /\ UNCHANGED frameVars

\* server.js: a.rotX/rotY/rotZ(radians)
Matrix_server_rot(axis, q) ==
    /\ lab' = MatrixCall("server.rot", lab.a, fromRotation(axis, q),
                         CASE axis = "X" -> server_rotX(lab.a, q)
                           [] axis = "Y" -> server_rotY(lab.a, q)
                           [] OTHER      -> server_rotZ(lab.a, q))
    /\ UNCHANGED frameVars

\* the caller goes on with other operands
Matrix_operands(a, b) ==
    /\ lab' = MatrixCall("operands", a, b, a)
    /\ UNCHANGED frameVars

MatrixNext ==
    \/ Matrix_identity
    \/ \E axis \in Axes, q \in Quarters : Matrix_fromRotation(axis, q)
    \/ \E axis \in Axes, q \in Quarters : Matrix_rotatedBy(axis, q)
    \/ \E axis \in Axes, q \in Quarters : Matrix_rot(axis, q)
    \/ \E b \in LabMatrices : Matrix_multiply(b)
    \/ \E b \in LabMatrices : Matrix_times(b)
    \/ \E b \in LabMatrices : Matrix_plus(b)
    \/ \E b \in LabMatrices : Matrix_minus(b)
    \/ Matrix_duplicated
    \/ \E b \in LabMatrices : Matrix_server_multiply(b)
    \/ \E axis \in Axes, q \in Quarters : Matrix_server_rotatedBy(axis, q)
    \/ \E axis \in Axes, q \in Quarters : Matrix_server_rot(axis, q)
    \/ \E a \in LabMatrices, b \in LabMatrices : Matrix_operands(a, b)

SpecMatrix == MatrixInit /\ [][MatrixNext]_vars

LastRow(m) == <<m[3], m[7], m[11], m[15]>>

\* C8 as stated: every matrix a public operation produces from operands
\* with the last row (0, 0, 0, 1) has the last row (0, 0, 0, 1)
C8_LastRowPreserved ==
    lab.op # "operands" => LastRow(lab.out) = <<R(0), R(0), R(0), R(1)>>

\* C8 (amended): identity, fromX/Y/ZRotation, rotatedByX/Y/Z, rotX/Y/Z,
\* multiply/times and copy/duplicated produce the last row (0, 0, 0, 1) from
\* operands that have it; add/plus produces the last row (0, 0, 0, 2) and
\* subtract/minus the last row (0, 0, 0, 0).
C8_LastRowExceptSums ==
    lab.op # "operands"
        => LastRow(lab.out) =
              CASE lab.op = "plus"  -> <<R(0), R(0), R(0), R(2)>>
                [] lab.op = "minus" -> <<R(0), R(0), R(0), R(0)>>
                [] OTHER            -> <<R(0), R(0), R(0), R(1)>>

\* a product of two operands that both scale, rotate and translate
C8_Witness ==
    /\ lab.op = "times"
    /\ lab.a[12] # R(0) /\ lab.b[12] # R(0)
    /\ lab.a # lab.b
    /\ lab.out[12] # R(0)

\* the matrix product under element (row r, column c) = m[r + 4c]
Product(a, b) ==
    [n \in 0..15 |->
        LET r == n % 4
            c == n \div 4
        IN  RAdd(RAdd(RMul(a[r], b[4 * c]), RMul(a[r + 4], b[4 * c + 1])),
                 RAdd(RMul(a[r + 8], b[4 * c + 2]), RMul(a[r + 12], b[4 * c + 3])))]

\* C9: multiply, times, rotatedByX/Y/Z and rotX/Y/Z, in the page's engine
\* and in server.js, produce the product a.b: applying the result to a
\* point equals applying b first and then a.
C9_MultiplyIsProduct ==
    lab.op \in {"multiply", "times", "rotatedBy", "rot",
                "server.multiply", "server.rotatedBy", "server.rot"}
        => /\ lab.out = Product(lab.a, lab.b)
           /\ \A P \in LabPoints :
                 multiplyVector3(lab.out, P)
                    = multiplyVector3(lab.a, multiplyVector3(lab.b, P))

----------------------------------------------------------------------------
(* UserInterface on its own: hit tests on drawn points, and a slider of *)
(* the GUI View under a pointer that moves while no frame runs         *)

\* hit-test points have coordinates k/2 for k in 0 .. HitGrid
HitGrid == 4

\* one more coordinate, a hundredth inside the left edge of the first rectangle
HitCoords == {Rat(k, 2) : k \in 0 .. HitGrid} \cup {Rat(51, 100)}

\* rectangles <<x, y, width, height>>
LabRects == { <<Rat(1, 2), Rat(1, 2), R(1), R(1)>> }

\* circles <<x, y, radius>>
LabCircles == { <<R(1), R(1), R(1)>> }

\* canvas pixels the pointer is moved to: inside the slider's height, left
\* of the track, at its ends, at its middle and right of it; and below the
\* middle of the track
UiPointers == { <<99, 129>>, <<111, 129>>, <<124, 129>>, <<136, 129>>,
                <<149, 129>>, <<124, 140>> }

\* slider inputs: x, <<lo, hi>> and curr
SliderXs == {R(5), Rat(9, 2)}

SliderRanges == { <<R(0), R(10)>>, <<R(-1), R(1)>>, <<R(3), R(3)>> }

SliderValues(range) ==
    {range[1], range[2], RDiv(RAdd(range[1], range[2]), R(2)), RAdd(range[2], R(5))}

SliderY == R(70)

\* the rectangle slider(name, x, y, ...) draws its track in
SliderRect(sp, name, x, y) ==
    [x |-> RAdd(RAdd(x, R(2)), measureText(sp, name, UI_TEXT_SIZE)[1]),
     y |-> y, width |-> R(25), height |-> R(3)]

UIInit ==
    /\ PageAtRest
    /\ lab = [op |-> "none"]

UI_isPointInRect(p, rect) ==
    /\ lab' = [op |-> "isPointInRect", p |-> p, rect |-> rect,
               result |-> isPointInRect(p, rect[1], rect[2], rect[3], rect[4])]
    /\ UNCHANGED frameVars

UI_isPointInCircle(p, circle) ==
    /\ lab' = [op |-> "isPointInCircle", p |-> p, circle |-> circle,
               result |-> isPointInCircle(p, circle[1], circle[2], circle[3])]
    /\ UNCHANGED frameVars

\* GUI.ui.slider("Rot", x, SliderY, lo, hi, curr) under the pointer as it is
UI_slider(x, range, curr) ==
    /\ lab' = [op |-> "slider", x |-> x, lo |-> range[1], hi |-> range[2],
               curr |-> curr,
               mouse |-> getMousePositionUnclamped(spaces["GUI.ui"], R(0)),
               held |-> isMouseButtonHeld(0),
               result |-> slider(spaces["GUI.ui"], "Rot", x, SliderY,
                                 range[1], range[2], curr)]
    /\ UNCHANGED frameVars

\* Spaces whose pointer position is asked for, and the depths passed
PointerSpaces == {"Front", "Perspective", "GUI.ui"}

PointerDepths == {R(0), R(1)}

\* getMousePosition(depth), getMousePositionUnclamped(depth) and
\* isMouseWithinSpace() of a Space; the playground has rotated Perspective
UI_getMousePosition(name, depth) ==
    /\ LET sp == IF name = "Perspective"
                 THEN rotateSpaceByX(spaces[name], 1, canvas)
                 ELSE spaces[name]
       IN  lab' = [op |-> "getMousePosition", sp |-> sp, depth |-> depth,
                   result |-> getMousePosition(sp, depth),
                   unclamped |-> getMousePositionUnclamped(sp, depth),
                   within |-> isMouseWithinSpace(sp)]
    /\ UNCHANGED frameVars

\* the UserInterfaces whose edges the playground asks for
EdgeSpaces == {"GUI.ui", "Front.ui", "Top.ui"}

\* ui.left(), ui.right(), ui.top(), ui.bottom() of one UserInterface
UI_edges(name) ==
    /\ lab' = [op |-> "edges", sp |-> spaces[name],
               left |-> UserInterface_left(spaces[name]),
               right |-> UserInterface_right(spaces[name]),
               top |-> UserInterface_top(spaces[name]),
               bottom |-> UserInterface_bottom(spaces[name])]
    /\ UNCHANGED frameVars

UINext ==
    \/ \E b \in ButtonMasks, p \in UiPointers : onMouseMove(b, p[1], p[2])
    \/ \E px \in HitCoords, py \in HitCoords, rect \in LabRects :
          UI_isPointInRect(Vec(px, py, R(0)), rect)
    \/ \E px \in HitCoords, py \in HitCoords, circle \in LabCircles :
          UI_isPointInCircle(Vec(px, py, R(0)), circle)
    \/ \E x \in SliderXs, range \in SliderRanges :
          \E curr \in SliderValues(range) : UI_slider(x, range, curr)
    \/ \E name \in PointerSpaces, depth \in PointerDepths :
          UI_getMousePosition(name, depth)
    \/ \E name \in EdgeSpaces : UI_edges(name)

SpecUI == UIInit /\ [][UINext]_vars

\* where along the slider's track the pointer of the last slider call was:
\* 0 at the left end, 1 at the right end
SliderT ==
    LET rect == SliderRect(spaces["GUI.ui"], "Rot", lab.x, SliderY)
    IN  RDiv(RSub(lab.mouse[0], rect.x), rect.width)

\* whether that pointer was strictly between the track's bottom and top
SliderInHeight ==
    LET rect == SliderRect(spaces["GUI.ui"], "Rot", lab.x, SliderY)
    IN  RLt(rect.y, lab.mouse[1]) /\ RLt(lab.mouse[1], RAdd(rect.y, rect.height))

\* C7 as stated: with button 0 held, a pointer beyond the right end of the
\* slider (t > 1) yields exactly hi and one beyond the left end (t < 0)
\* yields exactly lo
C7_SliderSaturates ==
    (lab.op = "slider" /\ lab.held)
        => /\ RLt(R(1), SliderT) => lab.result = lab.hi
           /\ RLt(SliderT, R(0)) => lab.result = lab.lo

\* C7 (amended): the slider follows the pointer only while button 0 is held
\* and the pointer is strictly inside the track's rectangle (0 < t < 1 and
\* inside its height); it then returns lo + t * (hi - lo).  A pointer at or
\* beyond either end leaves the value as it is: the call returns curr.
C7_SliderKeepsValueOutside ==
    lab.op = "slider"
        => lab.result =
              IF /\ lab.held
                 /\ RLt(R(0), SliderT) /\ RLt(SliderT, R(1))
                 /\ SliderInHeight
              THEN RAdd(lab.lo, RMul(SliderT, RSub(lab.hi, lab.lo)))
              ELSE IF RLt(lab.curr, lab.lo) THEN lab.lo
              ELSE IF RLt(lab.hi, lab.curr) THEN lab.hi
              ELSE lab.curr

\* button 0 held, the pointer at t = 1.5 right of a slider from 0 to 10
\* that stands at 5: the call returns 5
C7_Witness ==
    /\ lab.op = "slider"
    /\ lab.held
    /\ SliderInHeight
    /\ SliderT = Rat(3, 2)
    /\ lab.lo = R(0) /\ lab.hi = R(10) /\ lab.curr = R(5)
    /\ lab.result = R(5)

\* C17: for lo <= hi the slider returns a value within [lo, hi] for every
\* pointer position, button state and curr; when button 0 is not held or
\* the pointer is not inside the slider's rectangle it returns curr
\* unchanged (for curr in [lo, hi]).
C17_SliderWithinRange ==
    (lab.op = "slider" /\ RLe(lab.lo, lab.hi))
       => /\ RLe(lab.lo, lab.result) /\ RLe(lab.result, lab.hi)
          /\ (/\ RLe(lab.lo, lab.curr) /\ RLe(lab.curr, lab.hi)
              /\ \/ ~lab.held
                 \/ ~(RLt(R(0), SliderT) /\ RLt(SliderT, R(1)) /\ SliderInHeight))
                => lab.result = lab.curr

\* the pointer is at the middle of the track of a slider from 0 to 10 that
\* stands at 10, button 0 is up: the call returns 10
C17_Witness ==
    /\ lab.op = "slider"
    /\ ~lab.held
    /\ SliderInHeight /\ SliderT = Rat(1, 2)
    /\ lab.lo = R(0) /\ lab.hi = R(10) /\ lab.curr = R(10)
    /\ lab.result = R(10)

\* C10: isPointInRect(p, x, y, w, h) is true exactly when x < p[0] < x + w
\* and y < p[1] < y + h, so a point on the left edge is outside and a
\* point just inside it is inside; isPointInCircle(p, x, y, r) is true
\* exactly when the squared distance from p to (x, y) is less than r * r.
C10_StrictContainment ==
    /\ lab.op = "isPointInRect"
          => LET x == lab.rect[1]
                 y == lab.rect[2]
                 w == lab.rect[3]
                 h == lab.rect[4]
                 p == lab.p
             IN  /\ lab.result <=> ( /\ RLt(x, p[0]) /\ RLt(p[0], RAdd(x, w))
                                      /\ RLt(y, p[1]) /\ RLt(p[1], RAdd(y, h)) )
                 /\ (p[0] = x \/ p[0] = RAdd(x, w)) => ~lab.result
                 /\ (p[1] = y \/ p[1] = RAdd(y, h)) => ~lab.result
                 /\ ( /\ p[0] = RAdd(x, Rat(1, 100))
                      /\ RLt(y, p[1]) /\ RLt(p[1], RAdd(y, h)) ) => lab.result
    /\ lab.op = "isPointInCircle"
          => LET dx == RSub(lab.p[0], lab.circle[1])
                 dy == RSub(lab.p[1], lab.circle[2])
                 d2 == RAdd(RMul(dx, dx), RMul(dy, dy))
                 r2 == RMul(lab.circle[3], lab.circle[3])
             IN  /\ lab.result <=> RLt(d2, r2)
                 /\ d2 = r2 => ~lab.result

\* a point on the left edge of a rectangle, between its bottom and top,
\* found outside
C10_Witness ==
    /\ lab.op = "isPointInRect"
    /\ lab.p[0] = lab.rect[1]
    /\ RLt(lab.rect[2], lab.p[1])
    /\ RLt(lab.p[1], RAdd(lab.rect[2], lab.rect[4]))
    /\ ~lab.result

\* the screen rectangle of sp in canvas pixels (y grows downwards)
ScreenRect(sp) ==
    [left   |-> RMul(sp.screenX, R(canvas.width)),
     right  |-> RMul(RAdd(sp.screenX, sp.screenWidth), R(canvas.width)),
     top    |-> RMul(RSub(R(1), RAdd(sp.screenY, sp.screenHeight)), R(canvas.height)),
     bottom |-> RMul(RSub(R(1), sp.screenY), R(canvas.height))]

\* C15: the point getMousePosition(depth) returns maps forward through
\* the Space's matrix to a pixel inside or on the border of the Space's
\* screen rectangle, and it equals getMousePositionUnclamped(depth) exactly
\* when isMouseWithinSpace() is true.
C15_PointerClampedIntoSpace ==
    lab.op = "getMousePosition"
       => LET pixel == multiplyVector3(lab.sp.matrix, lab.result)
              rect  == ScreenRect(lab.sp)
          IN  /\ RLe(rect.left, pixel[0]) /\ RLe(pixel[0], rect.right)
              /\ RLe(rect.top, pixel[1]) /\ RLe(pixel[1], rect.bottom)
              /\ (lab.result = lab.unclamped) <=> lab.within

\* the pointer is left of and below the rotated Perspective Space: the
\* returned point differs from the unclamped one and maps onto the corner
C15_Witness ==
    /\ lab.op = "getMousePosition"
    /\ ~lab.within
    /\ lab.sp.rotationMatrix # identity
    /\ lab.depth = R(1)
    /\ rawMousePosition[0] = R(99)
    /\ multiplyVector3(lab.sp.matrix, lab.result)[0] = R(100)
    /\ multiplyVector3(lab.sp.matrix, lab.result)[1] = R(100)
    /\ lab.result # lab.unclamped

\* C20: left(), right(), top() and bottom() are the logical coordinates of
\* the edges of the ui Space's screen rectangle: the points (left, bottom)
\* and (right, top) map forward onto its bottom left and top right pixels,
\* right() is the x of getTopRightPoint and of getBottomRightPoint and is
\* greater than left(), and top() is greater than bottom().
C20_EdgesOfScreenRect ==
    lab.op = "edges"
       => LET rect == ScreenRect(lab.sp)
              bl   == multiplyVector3(lab.sp.matrix, Vec(lab.left, lab.bottom, R(0)))
              tr   == multiplyVector3(lab.sp.matrix, Vec(lab.right, lab.top, R(0)))
          IN  /\ bl[0] = rect.left /\ bl[1] = rect.bottom
              /\ tr[0] = rect.right /\ tr[1] = rect.top
              /\ lab.right = getTopRightPoint(lab.sp, R(0))[0]
              /\ lab.right = getBottomRightPoint(lab.sp, R(0))[0]
              /\ RLt(lab.left, lab.right)
              /\ RLt(lab.bottom, lab.top)

----------------------------------------------------------------------------
(* The LED colour buffer $state.ledData and Space.drawLeds *)

\* the mapping files hold 1 .. MaxLeds points
MaxLeds == 3

\* colours the playground gives to an LED
LedColours == { <<R(10), R(20), R(30)>>, <<R(300), R(-5), Rat(255, 2)>>,
                <<R(252), R(186), R(3)>> }

\* the byte a Uint8ClampedArray element takes when the number v is stored:
\* clamped to 0 .. 255 and rounded to the nearest integer, halves to even
ToUint8Clamp(v) ==
    IF RLe(v, R(0)) THEN 0
    ELSE IF RLe(R(255), v) THEN 255
    ELSE LET f   == v[1] \div v[2]
             rem == RSub(v, R(f))
         IN  IF RLt(rem, Half) THEN f
             ELSE IF RLt(Half, rem) THEN f + 1
             ELSE IF f % 2 = 0 THEN f ELSE f + 1

\* new Uint8ClampedArray(length)
Uint8ClampedArray(length) == [k \in 0 .. length - 1 |-> 0]

\* values[index] = v on a Uint8ClampedArray; a store past the end is ignored
storeByte(values, index, v) ==
    IF index \in DOMAIN values
    THEN [values EXCEPT ![index] = ToUint8Clamp(v)]
    ELSE values

\* a colour store that counts two bytes per LED
setLedColour_stride2(values, i, r, g, b) ==
    storeByte(storeByte(storeByte(values, i * 2 + 0, r), i * 2 + 1, g), i * 2 + 2, b)

\* $ledData[i * 3 + 0] = r; $ledData[i * 3 + 1] = g; $ledData[i * 3 + 2] = b
setLedColour(values, i, r, g, b) ==
    storeByte(storeByte(storeByte(values, i * 3 + 0, r), i * 3 + 1, g), i * 3 + 2, b)

\* $ledData[i * 3 + 0] += r; ... as exampleAnim3 does
addLedColour(values, i, r, g, b) ==
    setLedColour(values, i,
                 RAdd(R(values[i * 3 + 0]), r),
                 RAdd(R(values[i * 3 + 1]), g),
                 RAdd(R(values[i * 3 + 2]), b))

\* 0xFF | values[i*3+2] << 8 | values[i*3+1] << 16 | values[i*3+0] << 24,
\* passed through _canvasColor (rgba >>> 0 in hexadecimal, 8 digits): the
\* four bytes of the 32-bit word, most significant first
ledColour(values, i) ==
    <<values[i * 3 + 0], values[i * 3 + 1], values[i * 3 + 2], 255>>

\* Space.drawLeds(positions, values): the fill colour of each sphere drawn
drawLeds(numPositions, values) ==
    [i \in 0 .. numPositions - 1 |-> ledColour(values, i)]

\* colour writes the animations make between two $ledData.fill(0)
MaxWrites == 2

LedCall(op, values, prev, i, colour, drawn, writes) ==
    [op |-> op, values |-> values, prev |-> prev, i |-> i, colour |-> colour,
     drawn |-> drawn, writes |-> writes]

\* Mappings: state.ledData = new Uint8ClampedArray(persp.length * 3)
LedInit ==
    /\ PageAtRest
    /\ \E n \in 1 .. MaxLeds :
          lab = LedCall("new Mappings", Uint8ClampedArray(n * 3),
                        Uint8ClampedArray(n * 3), 0, << >>, << >>, 0)

\* normalized.length, the number of logical points of the mapping
NumLeds == Cardinality(DOMAIN lab.values) \div 3

\* loop: $ledData.fill(0) at the start of a frame
Led_fill ==
    /\ lab' = LedCall("fill", [k \in DOMAIN lab.values |-> 0], lab.values, 0,
                      << >>, << >>, 0)
    /\ UNCHANGED frameVars

Led_setLedColour(i, c) ==
    /\ lab.writes < MaxWrites
    /\ lab' = LedCall("setLedColour", setLedColour(lab.values, i, c[1], c[2], c[3]),
                      lab.values, i, c, << >>, lab.writes + 1)
    /\ UNCHANGED frameVars

Led_addLedColour(i, c) ==
    /\ lab.writes < MaxWrites
    /\ lab' = LedCall("addLedColour", addLedColour(lab.values, i, c[1], c[2], c[3]),
                      lab.values, i, c, << >>, lab.writes + 1)
    /\ UNCHANGED frameVars

\* loop: $spaces.Perspective.view.drawLeds($mappings.normalized, $ledData)
Led_drawLeds ==
    /\ lab' = LedCall("drawLeds", lab.values, lab.values, 0, << >>,
                      drawLeds(NumLeds, lab.values), lab.writes)
    /\ UNCHANGED frameVars

LedNext ==
    \/ Led_fill
    \/ \E i \in 0 .. NumLeds - 1, c \in LedColours : Led_setLedColour(i, c)
    \/ \E i \in 0 .. NumLeds - 1, c \in LedColours : Led_addLedColour(i, c)
    \/ Led_drawLeds

SpecLed == LedInit /\ [][LedNext]_vars

\* a channel number that is already a byte
IsByte(v) == v[2] = 1 /\ v[1] \in 0 .. 255

\* C11: the buffer has 3 bytes per point, each in 0 .. 255; setting the
\* colour of point i puts R, G, B at offsets 3i, 3i+1, 3i+2 and changes no
\* other offset; drawLeds draws point i from exactly those three bytes and
\* leaves the buffer unchanged.
C11_LedBufferLayout ==
    /\ DOMAIN lab.values = 0 .. 3 * NumLeds - 1
    /\ \A k \in DOMAIN lab.values : lab.values[k] \in 0 .. 255
    /\ lab.op \in {"setLedColour", "addLedColour"}
          => \A k \in DOMAIN lab.values :
                k \notin {3 * lab.i, 3 * lab.i + 1, 3 * lab.i + 2}
                   => lab.values[k] = lab.prev[k]
    /\ lab.op = "setLedColour"
          => \A ch \in 0 .. 2 :
                IsByte(lab.colour[ch + 1])
                   => lab.values[3 * lab.i + ch] = lab.colour[ch + 1][1]
    /\ lab.op = "drawLeds"
          => /\ lab.values = lab.prev
             /\ DOMAIN lab.drawn = 0 .. NumLeds - 1
             /\ \A i \in DOMAIN lab.drawn :
                   lab.drawn[i] = <<lab.values[3 * i], lab.values[3 * i + 1],
                                    lab.values[3 * i + 2], 255>>

\* point 2 has just been set to (10, 20, 30) while point 0 holds another
\* colour: offsets 6, 7, 8 read 10, 20, 30
C11_Witness ==
    /\ lab.op = "setLedColour"
    /\ lab.i = 2
    /\ <<lab.values[6], lab.values[7], lab.values[8]>> = <<10, 20, 30>>
    /\ lab.values[0] = 255 /\ lab.values[2] = 128

\* the buffer of a mapping of three points has been drawn while point 1
\* holds a colour with three different channels
C11_WitnessDrawn ==
    /\ lab.op = "drawLeds"
    /\ NumLeds = 3
    /\ lab.drawn[1] = <<252, 186, 3, 255>>

----------------------------------------------------------------------------
(* server.js: the /data websocket that forwards buffers to the device *)

\* /data connections accepted during a run of the server
MaxSockets == 3

\* frames a browser has sent on one socket that the server has not read yet
MaxInFlight == 1

\* what a browser sends: binary frames (one holding 0xFF) and a text frame
DataMessages == { [buffer |-> TRUE, bytes |-> <<255, 0, 7>>],
                  [buffer |-> TRUE, bytes |-> <<1, 2, 3>>],
                  [buffer |-> FALSE, bytes |-> << >>] }

DeviceStatuses == {"Scanning", "UnableToConnect", "Connected"}

\* a forwardBufferToDevice that writes the buffer as it came
forwardBufferToDevice_raw(buffer) == <<255>> \o buffer

\* forwardBufferToDevice(device, buffer): the bytes written to the device
forwardBufferToDevice(buffer) ==
    <<255>> \o [k \in 1 .. Len(buffer) |-> IF buffer[k] = 255 THEN 254 ELSE buffer[k]]

ServerState(op, sock, inflight, data, status, from, wrote, device) ==
    [op |-> op, sock |-> sock, inflight |-> inflight, data |-> data, status |-> status, from |-> from, wrote |-> wrote, device |-> device]

\* the server has started: no websocket yet, the device is being scanned for
ServerInit ==
    /\ PageAtRest
    /\ lab = ServerState("listen", [w \in 1 .. MaxSockets |-> "none"],
                         [w \in 1 .. MaxSockets |-> << >>], 0, "Scanning", 0, FALSE, << >>)

\* setDeviceStateScanning / UnableToConnect / Connected
Server_setDeviceState(status) ==
    /\ status # lab.status
    /\ lab' = [lab EXCEPT !.op = "setDeviceState", !.status = status,
                          !.from = 0, !.wrote = FALSE]
    /\ UNCHANGED frameVars

\* dataServer.on('connection'): the message listener is registered on ws,
\* the socket held in websockets.data is asked to close, ws replaces it
Server_connection(ws) ==
    /\ lab.sock[ws] = "none"
    /\ \A w \in 1 .. ws - 1 : lab.sock[w] # "none"
    /\ lab' = [lab EXCEPT !.op = "connection",
                          !.sock = [w \in 1 .. MaxSockets |->
                                       IF w = ws THEN "open"
                                       ELSE IF w = lab.data /\ lab.sock[w] = "open"
                                            THEN "closing"
                                            ELSE lab.sock[w]],
                          !.data = ws, !.from = ws, !.wrote = FALSE]
    /\ UNCHANGED frameVars

\* trySendToMicrocontroller in a browser window whose dataWs is still OPEN
\* (the close frame of the server has not reached it)
Browser_send(ws, message) ==
    /\ lab.sock[ws] \in {"open", "closing"}
    /\ Len(lab.inflight[ws]) < MaxInFlight
    /\ lab' = [lab EXCEPT !.op = "send", !.from = ws, !.wrote = FALSE,
                          !.inflight[ws] = Append(@, message)]
    /\ UNCHANGED frameVars

\* ws.on('message'): the listener registered for ws runs on the next frame
\* that arrives on ws
Server_incoming(ws) ==
    /\ lab.sock[ws] \in {"open", "closing"}
    /\ lab.inflight[ws] # << >>
    /\ LET message == Head(lab.inflight[ws])
           forward == lab.status = "Connected" /\ message.buffer
       IN  lab' = [lab EXCEPT !.op = "incoming", !.from = ws, !.wrote = forward,
                              !.inflight[ws] = Tail(@),
                              !.device = IF forward
                                         THEN forwardBufferToDevice(message.bytes)
                                         ELSE @]
    /\ UNCHANGED frameVars

\* the closing handshake of ws ends (or the window goes away): no further
\* frame of ws is read
Server_closed(ws) ==
    /\ lab.sock[ws] \in {"open", "closing"}
    /\ lab' = [lab EXCEPT !.op = "closed", !.from = ws, !.wrote = FALSE,
                          !.sock[ws] = "closed", !.inflight[ws] = << >>]
    /\ UNCHANGED frameVars

ServerNext ==
    \/ \E status \in DeviceStatuses : Server_setDeviceState(status)
    \/ \E ws \in 1 .. MaxSockets : Server_connection(ws)
    \/ \E ws \in 1 .. MaxSockets, message \in DataMessages : Browser_send(ws, message)
    \/ \E ws \in 1 .. MaxSockets : Server_incoming(ws)
    \/ \E ws \in 1 .. MaxSockets : Server_closed(ws)

SpecServer == ServerInit /\ [][ServerNext]_vars

\* C12: once a newer /data websocket has been accepted, no message that
\* arrives on an earlier /data websocket is forwarded to the device.
C12_OnlyNewestSocketForwards ==
    (lab.op = "incoming" /\ lab.wrote) => lab.from = lab.data

\* a buffer arriving on the socket held in websockets.data is forwarded
\* with its 0xFF byte escaped
C12_NewestForwarded ==
    /\ lab.op = "incoming" /\ lab.wrote /\ lab.from = lab.data /\ lab.data = 2
    /\ lab.device = <<255, 254, 0, 7>>

----------------------------------------------------------------------------
(* Bounds3D and mapPointsToNormalizedCoords *)

\* JavaScript numbers that are not rationals: <<1, 0>> is Infinity,
\* <<-1, 0>> is -Infinity, <<0, 0>> is NaN
Infinity == <<1, 0>>

NaN == <<0, 0>>

isNaN(a) == a = NaN

isFinite(a) == a[2] # 0

\* a < b on JavaScript numbers
NumLt(a, b) ==
    IF isNaN(a) \/ isNaN(b) THEN FALSE
    ELSE IF a[2] = 0 /\ b[2] = 0 THEN a[1] < b[1]
    ELSE RLt(a, b)

NumLe(a, b) == ~isNaN(a) /\ ~isNaN(b) /\ ~NumLt(b, a)

Math_min(a, b) == IF isNaN(a) \/ isNaN(b) THEN NaN ELSE IF NumLt(b, a) THEN b ELSE a

Math_max(a, b) == IF isNaN(a) \/ isNaN(b) THEN NaN ELSE IF NumLt(a, b) THEN b ELSE a

Math_abs(a) == <<Abs(a[1]), a[2]>>

Sign(n) == IF n < 0 THEN -1 ELSE IF n > 0 THEN 1 ELSE 0

\* a / b on JavaScript numbers (signed zero is not told apart)
NumDiv(a, b) ==
    IF isNaN(a) \/ isNaN(b) THEN NaN
    ELSE IF ~isFinite(a) THEN (IF ~isFinite(b) THEN NaN
                               ELSE <<a[1] * (IF b[1] < 0 THEN -1 ELSE 1), 0>>)
    ELSE IF ~isFinite(b) THEN R(0)
    ELSE IF b[1] = 0 THEN <<Sign(a[1]), 0>>
    ELSE RDiv(a, b)

\* a * b on JavaScript numbers
NumMul(a, b) ==
    IF isNaN(a) \/ isNaN(b) THEN NaN
    ELSE IF ~isFinite(a) \/ ~isFinite(b) THEN <<Sign(a[1]) * Sign(b[1]), 0>>
    ELSE RMul(a, b)

\* new Bounds3D()
NewBounds3D ==
    [lo |-> Vec(Infinity, Infinity, Infinity),
     hi |-> Vec(RNeg(Infinity), RNeg(Infinity), RNeg(Infinity))]

\* the loop of Bounds3D.fromPoints from point i on
RECURSIVE fromPointsLoop(_, _, _)
fromPointsLoop(points, i, out) ==
    IF i > Len(points) THEN out
    ELSE LET pt == points[i]
         IN  fromPointsLoop(points, i + 1,
                 [lo |-> [k \in 0 .. 2 |-> Math_min(out.lo[k], pt[k])],
                  hi |-> [k \in 0 .. 2 |-> Math_max(out.hi[k], pt[k])]])

\* an optional argument: << >> when omitted, <<value>> when passed
undefined == << >>

\* a fromPoints that starts from empty bounds whatever out holds
Bounds3D_fromPoints_cleared(points, out) == fromPointsLoop(points, 1, NewBounds3D)

\* Bounds3D.fromPoints(points, out)
Bounds3D_fromPoints(points, out) ==
    fromPointsLoop(points, 1, IF out = undefined THEN NewBounds3D ELSE out[1])

\* Bounds3D.fromUnion(a, b) and a.union(b)
Bounds3D_fromUnion(a, b) ==
    [lo |-> [k \in 0 .. 2 |-> Math_min(a.lo[k], b.lo[k])],
     hi |-> [k \in 0 .. 2 |-> Math_max(a.hi[k], b.hi[k])]]

\* the first loop of mapPointsToNormalizedCoords
maxBoundValue(boundingBox) ==
    LET m(k) == Math_max(Math_abs(boundingBox.lo[k]), Math_abs(boundingBox.hi[k]))
    IN  Math_max(Math_max(Math_max(RNeg(Infinity), m(0)), m(1)), m(2))

\* mapPointsToNormalizedCoords(dataPoints, boundingBox)
mapPointsToNormalizedCoords(dataPoints, boundingBox) ==
    LET box         == IF boundingBox = undefined
                       THEN Bounds3D_fromPoints(dataPoints, undefined)
                       ELSE boundingBox[1]
        scaleFactor == NumDiv(R(1), maxBoundValue(box))
    IN  [i \in 1 .. Len(dataPoints) |->
            Vec(NumMul(dataPoints[i][0], scaleFactor),
                NumMul(dataPoints[i][1], scaleFactor),
                NumMul(dataPoints[i][2], scaleFactor))]

\* points of one mapping file
MaxPoints == 2

MappingPoints ==
    { Vec(R(0), R(0), R(0)), Vec(R(1), R(-2), R(3)), Vec(R(-4), R(2), Rat(1, 2)) }

PointLists == UNION { [1 .. n -> MappingPoints] : n \in 0 .. MaxPoints }

BoundsCall(op, points, out, bounds, normalized) ==
    [op |-> op, points |-> points, out |-> out, bounds |-> bounds, normalized |-> normalized]

BoundsInit ==
    /\ PageAtRest
    /\ lab = BoundsCall("new Bounds3D", << >>, undefined, NewBounds3D, << >>)

\* Bounds3D.fromPoints(points) or Bounds3D.fromPoints(points, out) with the
\* Bounds3D of the last call as out
Bounds_fromPoints(points, reuse) ==
    /\ LET out == IF reuse THEN <<lab.bounds>> ELSE undefined
       IN  lab' = BoundsCall("fromPoints", points, out,
                             Bounds3D_fromPoints(points, out), << >>)
    /\ UNCHANGED frameVars

\* lab.bounds.union(Bounds3D.fromPoints(points)) as Mappings builds fullBounds
Bounds_union(points) ==
    /\ lab' = BoundsCall("union", points, <<lab.bounds>>,
                         Bounds3D_fromUnion(lab.bounds, Bounds3D_fromPoints(points, undefined)),
                         << >>)
    /\ UNCHANGED frameVars

\* mapPointsToNormalizedCoords(points) or with the current Bounds3D
Bounds_mapPointsToNormalizedCoords(points, explicit) ==
    /\ LET box == IF explicit THEN <<lab.bounds>> ELSE undefined
       IN  lab' = BoundsCall("mapPointsToNormalizedCoords", points, box, lab.bounds,
                             mapPointsToNormalizedCoords(points, box))
    /\ UNCHANGED frameVars

BoundsNext ==
    \/ \E points \in PointLists, reuse \in BOOLEAN : Bounds_fromPoints(points, reuse)
    \/ \E points \in PointLists : Bounds_union(points)
    \/ \E points \in PointLists, explicit \in BOOLEAN :
          Bounds_mapPointsToNormalizedCoords(points, explicit)

SpecBounds == BoundsInit /\ [][BoundsNext]_vars

\* the smallest and the largest k-th coordinate of a non-empty point list
RECURSIVE MinOver(_, _, _)
MinOver(points, k, i) ==
    IF i = Len(points) THEN points[i][k]
    ELSE RMin(points[i][k], MinOver(points, k, i + 1))

RECURSIVE MaxOver(_, _, _)
MaxOver(points, k, i) ==
    IF i = Len(points) THEN points[i][k]
    ELSE RMax(points[i][k], MaxOver(points, k, i + 1))

\* C13: Bounds3D.fromPoints(points, out) gives lo[k] = the minimum and
\* hi[k] = the maximum of the k-th coordinate over exactly the input points,
\* both when out is omitted and when a used Bounds3D is passed as out, and
\* lo <= hi for non-empty input.
C13_ExactlyTheInputPoints ==
    (lab.op = "fromPoints" /\ lab.points # << >>)
       => \A k \in 0 .. 2 :
             /\ lab.bounds.lo[k] = MinOver(lab.points, k, 1)
             /\ lab.bounds.hi[k] = MaxOver(lab.points, k, 1)
             /\ NumLe(lab.bounds.lo[k], lab.bounds.hi[k])

\* what fromPoints does hold: without out the bounds are those of exactly
\* the input points; with out they also cover what out covered before
C13_BoundsOfPointsAndOut ==
    (lab.op = "fromPoints" /\ lab.points # << >>)
       => \A k \in 0 .. 2 :
             /\ lab.bounds.lo[k] = (IF lab.out = undefined THEN MinOver(lab.points, k, 1)
                                    ELSE Math_min(lab.out[1].lo[k], MinOver(lab.points, k, 1)))
             /\ lab.bounds.hi[k] = (IF lab.out = undefined THEN MaxOver(lab.points, k, 1)
                                    ELSE Math_max(lab.out[1].hi[k], MaxOver(lab.points, k, 1)))
             /\ NumLe(lab.bounds.lo[k], lab.bounds.hi[k])

\* a used Bounds3D was passed as out and it reached further than the two
\* input points do: the result keeps the old extent
C13_Witness ==
    /\ lab.op = "fromPoints" /\ Len(lab.points) = 2
    /\ lab.out # undefined /\ isFinite(lab.out[1].lo[0])
    /\ NumLt(lab.bounds.lo[0], MinOver(lab.points, 0, 1))
    /\ lab.bounds.hi[2] = MaxOver(lab.points, 2, 1)
    /\ NumLt(lab.out[1].hi[2], lab.bounds.hi[2])

\* the boundingBox a call has used covers every one of its points
Encompasses(box, points) ==
    \A i \in 1 .. Len(points), k \in 0 .. 2 :
       NumLe(box.lo[k], points[i][k]) /\ NumLe(points[i][k], box.hi[k])

\* the largest absolute coordinate of a list of points
MaxAbs(points) ==
    LET all == { Math_abs(points[i][k]) : i \in 1 .. Len(points), k \in 0 .. 2 }
    IN  CHOOSE m \in all : \A a \in all : isNaN(m) \/ NumLe(a, m)

\* C14: mapPointsToNormalizedCoords scales any non-empty point set by one
\* scalar so that the largest absolute coordinate of the result is 1; with
\* an explicit boundingBox that encompasses the points every coordinate of
\* the result is within [-1, 1].
C14_FitsUnitCube ==
    (lab.op = "mapPointsToNormalizedCoords" /\ lab.points # << >>)
       => /\ lab.out = undefined => MaxAbs(lab.normalized) = R(1)
          /\ (lab.out # undefined /\ Encompasses(lab.out[1], lab.points))
                => \A i \in 1 .. Len(lab.normalized), k \in 0 .. 2 :
                      /\ NumLe(R(-1), lab.normalized[i][k])
                      /\ NumLe(lab.normalized[i][k], R(1))

----------------------------------------------------------------------------
(* State: the saved values, their defaults and localStorage *)

\* objects the page can hold at once: savedDefaults and saved with one
\* nested object each, the parsed stored value with one, the merged object
HeapSize == 7

Addr == 1 .. HeapSize

\* a JavaScript value: a primitive (written as its JSON text) or a
\* reference to an object of the heap
Prim(p) == [kind |-> "prim", prim |-> p, ref |-> 0]

Ref(a) == [kind |-> "ref", prim |-> "", ref |-> a]

\* an object without properties
EmptyObject == [k \in {} |-> Prim("")]

\* JSON text, by what it denotes: a primitive or an object of texts
TPrim(p) == [kind |-> "prim", prim |-> p, obj |-> EmptyObject]

TObj(f) == [kind |-> "obj", prim |-> "", obj |-> f]

\* property names in the order in which an object literal lists them
KeyOrder == <<"animState", "anim", "show", "speed">>

\* the objects reachable from the roots (objects nest one level deep, as
\* the playground's defaults do)
Reachable(heap, roots) ==
    roots \cup (UNION { { heap[a][k].ref : k \in DOMAIN heap[a] } : a \in roots } \ {0})

\* the unreachable objects are collected
Collect(heap, roots) ==
    [a \in Addr |-> IF a \in Reachable(heap, roots) THEN heap[a] ELSE EmptyObject]

\* the addresses not in use, in ascending order
RECURSIVE Ascending(_)
Ascending(set) ==
    IF set = {} THEN << >>
    ELSE LET m == CHOOSE x \in set : \A y \in set : x <= y
         IN  <<m>> \o Ascending(set \ {m})

\* JSON.stringify(value)
RECURSIVE JSON_stringify(_, _)
JSON_stringify(heap, value) ==
    IF value.kind = "prim" THEN TPrim(value.prim)
    ELSE TObj([k \in DOMAIN heap[value.ref] |-> JSON_stringify(heap, heap[value.ref][k])])

\* JSON.parse(text): fresh objects, none shared with an object in use
JSON_parse(heap, roots, text) ==
    IF text.kind = "prim" THEN [heap |-> heap, value |-> Prim(text.prim)]
    ELSE LET free    == Ascending(Addr \ Reachable(heap, roots))
             nested  == SelectSeq(KeyOrder,
                           LAMBDA k : k \in DOMAIN text.obj /\ text.obj[k].kind = "obj")
             at(k)   == free[1 + CHOOSE n \in 1 .. Len(nested) : nested[n] = k]
             isAt(a) == \E n \in 1 .. Len(nested) : free[1 + n] = a
             keyAt(a) == nested[CHOOSE n \in 1 .. Len(nested) : free[1 + n] = a]
         IN  [heap |-> [a \in Addr |->
                          IF a = free[1]
                          THEN [k \in DOMAIN text.obj |->
                                  IF text.obj[k].kind = "obj" THEN Ref(at(k))
                                  ELSE Prim(text.obj[k].prim)]
                          ELSE IF isAt(a)
                          THEN [j \in DOMAIN text.obj[keyAt(a)].obj |->
                                  Prim(text.obj[keyAt(a)].obj[j].prim)]
                          ELSE heap[a]],
              value |-> Ref(free[1])]

\* what localStorage.getItem returns: null, or the text of the entry, which
\* is JSON text or something JSON.parse throws on
NoItem == [kind |-> "null", text |-> TPrim("")]

Item(text) == [kind |-> "json", text |-> text]

Unparsable == [kind |-> "unparsable", text |-> TPrim("")]

\* the fields of a State and the localStorage entry
StateOf(heap, defaultsRef, savedRef, storage) ==
    [heap |-> heap, savedDefaults |-> defaultsRef, saved |-> savedRef, storage |-> storage]

\* State.reset()
State_reset(st) ==
    LET text   == JSON_stringify(st.heap, Ref(st.savedDefaults))
        parsed == JSON_parse(st.heap, {st.savedDefaults}, text)
    IN  [st EXCEPT !.heap = Collect(parsed.heap, {st.savedDefaults, parsed.value.ref}),
                   !.saved = parsed.value.ref]

\* State.savePreReload()
State_savePreReload(st) ==
    [st EXCEPT !.storage = Item(JSON_stringify(st.heap, Ref(st.saved)))]

\* { ...saved, ...stored }: a new object with the properties of saved,
\* overwritten by those of stored
spread(heap, roots, savedRef, stored) ==
    LET fresh == Ascending(Addr \ Reachable(heap, roots))[1]
        over  == IF stored.kind = "ref" THEN heap[stored.ref] ELSE EmptyObject
    IN  [heap |-> [heap EXCEPT ![fresh] =
                      [k \in DOMAIN heap[savedRef] \cup DOMAIN over |->
                          IF k \in DOMAIN over THEN over[k] ELSE heap[savedRef][k]]],
         value |-> Ref(fresh)]

\* a restore that leaves the unparsable entry in localStorage
State_tryRestoreFromSave_keeping(st) ==
    IF st.storage.kind # "json" THEN st
    ELSE LET roots  == {st.savedDefaults, st.saved}
             parsed == JSON_parse(st.heap, roots, st.storage.text)
             stored == parsed.value
             merged == spread(parsed.heap,
                              roots \cup (IF stored.kind = "ref" THEN {stored.ref} ELSE {}),
                              st.saved, stored)
         IN  [st EXCEPT !.heap = Collect(merged.heap, {st.savedDefaults, merged.value.ref}),
                        !.saved = merged.value.ref]

\* State.tryRestoreFromSave()
State_tryRestoreFromSave(st) ==
    IF st.storage.kind = "null" THEN st
    ELSE IF st.storage.kind = "unparsable" THEN [st EXCEPT !.storage = NoItem]
    ELSE LET roots  == {st.savedDefaults, st.saved}
             parsed == JSON_parse(st.heap, roots, st.storage.text)
             stored == parsed.value
             merged == spread(parsed.heap,
                              roots \cup (IF stored.kind = "ref" THEN {stored.ref} ELSE {}),
                              st.saved, stored)
         IN  [st EXCEPT !.heap = Collect(merged.heap, {st.savedDefaults, merged.value.ref}),
                        !.saved = merged.value.ref]

\* new State(savedDefaults) on a freshly loaded page
State_constructor(literal, storage) ==
    LET empty  == [a \in Addr |-> EmptyObject]
        parsed == JSON_parse(empty, {}, literal)
    IN  State_tryRestoreFromSave(
            State_reset(StateOf(parsed.heap, parsed.value.ref, parsed.value.ref, storage)))

\* the object literals passed to new State(..): the playground's, and one
\* edited to hold a further value
DefaultLiterals ==
    { TObj([k \in {"animState", "anim"} |->
              IF k = "animState" THEN TPrim("0")
              ELSE TObj([j \in {"show"} |-> TPrim("false")])]),
      TObj([k \in {"animState", "anim", "speed"} |->
              IF k = "animState" THEN TPrim("0")
              ELSE IF k = "speed" THEN TPrim("1")
              ELSE TObj([j \in {"show"} |-> TPrim("false")])]) }

\* what the page last did, its State, the literal it was built from, and
\* the saved values and the stored entry the last reload started from
StateCall(op, page, st, literal, s, stored) ==
    [op |-> op, page |-> page, st |-> st, literal |-> literal, s |-> s, stored |-> stored]

StateInit ==
    /\ PageAtRest
    /\ \E literal \in DefaultLiterals :
          lab = StateCall("constructor", "live", State_constructor(literal, NoItem),
                          literal, TPrim(""), NoItem)

\* the 'Reset State' button: $state.reset()
State_callReset ==
    /\ lab.page = "live"
    /\ lab' = [lab EXCEPT !.op = "reset", !.st = State_reset(lab.st)]
    /\ UNCHANGED frameVars

\* $saved.anim.show = GUI.ui.checkbox('Anim', ..)
State_setAnimShow(show) ==
    /\ lab.page = "live"
    /\ LET anim == lab.st.heap[lab.st.saved]["anim"].ref
       IN  lab' = [lab EXCEPT !.op = "setAnimShow",
                              !.st.heap[anim]["show"] = Prim(show)]
    /\ UNCHANGED frameVars

\* $saved.animState = 0, 1 or 2
State_setAnimState(animState) ==
    /\ lab.page = "live"
    /\ lab' = [lab EXCEPT !.op = "setAnimState",
                          !.st.heap[lab.st.saved]["animState"] = Prim(animState)]
    /\ UNCHANGED frameVars

\* 'beforeunload': this.savePreReload(); the page goes away
State_beforeunload ==
    /\ lab.page = "live"
    /\ lab' = [lab EXCEPT !.op = "savePreReload", !.page = "unloaded",
                          !.st = State_savePreReload(lab.st),
                          !.s = JSON_stringify(lab.st.heap, Ref(lab.st.saved))]
    /\ UNCHANGED frameVars

\* while no page is loaded the entry is overwritten or cleared from outside
Storage_setItem(storage) ==
    /\ lab.page = "unloaded"
    /\ storage # lab.st.storage
    /\ lab' = [lab EXCEPT !.op = "setItem", !.st.storage = storage]
    /\ UNCHANGED frameVars

\* the page loads again: new State(literal)
State_load(literal) ==
    /\ lab.page = "unloaded"
    /\ lab' = StateCall("constructor", "live", State_constructor(literal, lab.st.storage),
                        literal, lab.s, lab.st.storage)
    /\ UNCHANGED frameVars

StateNext ==
    \/ State_callReset
    \/ \E show \in {"false", "true"} : State_setAnimShow(show)
    \/ \E animState \in {"0", "1", "2"} : State_setAnimState(animState)
    \/ State_beforeunload
    \/ \E storage \in {NoItem, Unparsable, Item(TPrim("null"))} : Storage_setItem(storage)
    \/ \E literal \in DefaultLiterals : State_load(literal)

SpecState == StateInit /\ [][StateNext]_vars

\* the values of saved and of savedDefaults, as JSON.stringify shows them
SavedText == JSON_stringify(lab.st.heap, Ref(lab.st.saved))

DefaultsText == JSON_stringify(lab.st.heap, Ref(lab.st.savedDefaults))

----------------------------------------------------------------------------
(* Vector3.normalize in index.html and in the engine copy of server.js *)

\* Math.sqrt of a rational whose numerator and denominator are squares
Math_sqrt(a) ==
    LET root(n) == CHOOSE r \in 0 .. n : r * r = n
    IN  <<root(a[1]), root(a[2])>>

\* Vector3.magnitude(vector)
Vector3_magnitude(vector) ==
    Math_sqrt(RAdd(RAdd(RMul(vector[0], vector[0]), RMul(vector[1], vector[1])),
                   RMul(vector[2], vector[2])))

\* what a call hands back: the value returned (undefined when the function
\* ends without a return statement) and what the out vector holds then
Returned(value, out) == [value |-> value, out |-> out]

\* Vector3.normalize(vector, out) of index.html
Vector3_normalize(vector, out) ==
    LET divisor == NumDiv(R(1), Vector3_magnitude(vector))
    IN  IF isFinite(divisor)
        THEN Returned(<<Vector3_scaled(vector, divisor)>>, Vector3_scaled(vector, divisor))
        ELSE Returned(<<Vector3_zero>>, Vector3_zero)

\* vector.normalized() of index.html
Vector3_normalized(vector) == Vector3_normalize(vector, undefined)

\* Vector3.normalize(vector, out) of server.js: the else branch sets out
\* and falls off the end of the function
server_Vector3_normalize(vector, out) ==
    LET divisor == NumDiv(R(1), Vector3_magnitude(vector))
    IN  IF isFinite(divisor)
        THEN Returned(<<Vector3_scaled(vector, NumDiv(R(1), Vector3_magnitude(vector)))>>,
                      Vector3_scaled(vector, NumDiv(R(1), Vector3_magnitude(vector))))
        ELSE Returned(undefined, Vector3_zero)

\* vector.normalized() of server.js
server_Vector3_normalized(vector) == server_Vector3_normalize(vector, undefined)

\* vectors of rational length, the zero vector among them
LabVectors ==
    { Vector3_zero, Vec(R(1), R(0), R(0)), Vec(R(0), R(-2), R(0)),
      Vec(R(3), R(4), R(0)), Vec(R(0), R(0), Rat(1, 2)), Vec(R(1), R(2), R(2)),
      Vec(R(-2), R(3), R(6)), Vec(R(0), R(3), R(-4)), Vec(R(4), R(0), R(3)),
      Vec(R(2), R(-1), R(2)), Vec(R(6), R(2), R(-3)) }

\* the out argument: omitted, or a vector that holds something already
LabOuts == { undefined, <<Vector3_zero>>, <<Vec(R(1), R(2), R(2))>>,
             <<Vec(R(7), R(7), R(7))>> }

VectorCall(op, engine, vector, out, returned) ==
    [op |-> op, engine |-> engine, vector |-> vector, out |-> out, returned |-> returned]

VectorInit ==
    /\ PageAtRest
    /\ lab = VectorCall("zero", "index.html", Vector3_zero, undefined,
                        Returned(<<Vector3_zero>>, Vector3_zero))

Vector_normalize(vector, out) ==
    /\ lab' = VectorCall("normalize", "index.html", vector, out,
                         Vector3_normalize(vector, out))
    /\ UNCHANGED frameVars

Vector_normalized(vector) ==
    /\ lab' = VectorCall("normalized", "index.html", vector, undefined,
                         Vector3_normalized(vector))
    /\ UNCHANGED frameVars

Vector_server_normalize(vector, out) ==
    /\ lab' = VectorCall("normalize", "server.js", vector, out,
                         server_Vector3_normalize(vector, out))
    /\ UNCHANGED frameVars

Vector_server_normalized(vector) ==
    /\ lab' = VectorCall("normalized", "server.js", vector, undefined,
                         server_Vector3_normalized(vector))
    /\ UNCHANGED frameVars

VectorNext ==
    \/ \E vector \in LabVectors, out \in LabOuts : Vector_normalize(vector, out)
    \/ \E vector \in LabVectors : Vector_normalized(vector)
    \/ \E vector \in LabVectors, out \in LabOuts : Vector_server_normalize(vector, out)
    \/ \E vector \in LabVectors : Vector_server_normalized(vector)

SpecVector == VectorInit /\ [][VectorNext]_vars

\* C19: in every engine variant normalize(v, out) and v.normalized() of
\* the zero vector return a vector equal to (0, 0, 0), never undefined and
\* never the result of a division by zero, whether or not out is supplied.
C19_NormalizeZeroReturnsZero ==
    (lab.op \in {"normalize", "normalized"} /\ lab.vector = Vector3_zero)
       => lab.returned.value = <<Vector3_zero>>

----------------------------------------------------------------------------
(* Bounds3D.fromUnion with out omitted or the same object as an operand *)

\* points handed to fromPoints for one operand of a union
MaxUnionPoints == 1

UnionPointLists == UNION { [1 .. n -> MappingPoints] : n \in 0 .. MaxUnionPoints }

\* which object is passed as out: a new one, the operand a or the operand b
OutChoices == {"new", "a", "b"}

\* the six assignments of fromUnion from the n-th on; a and b are read
\* again before each one, through out when they are the same object
RECURSIVE fromUnionSteps(_, _, _, _, _)
fromUnionSteps(a, b, out, which, n) ==
    IF n > 6 THEN out
    ELSE LET ra == IF which = "a" THEN out ELSE a
             rb == IF which = "b" THEN out ELSE b
             k  == (n - 1) % 3
         IN  fromUnionSteps(a, b,
                 IF n <= 3
                 THEN [out EXCEPT !.lo[k] = Math_min(ra.lo[k], rb.lo[k])]
                 ELSE [out EXCEPT !.hi[k] = Math_max(ra.hi[k], rb.hi[k])],
                 which, n + 1)

\* a fromUnion that takes the upper corner of b as it is
fromUnionInto_hiOfB(a, b, which) ==
    [lo |-> [k \in 0 .. 2 |-> Math_min(a.lo[k], b.lo[k])], hi |-> b.hi]

\* Bounds3D.fromUnion(a, b, out) with out new, a or b: what out holds then
fromUnionInto(a, b, which) ==
    fromUnionSteps(a, b,
                   IF which = "a" THEN a ELSE IF which = "b" THEN b ELSE NewBounds3D,
                   which, 1)

UnionCall(op, pointsA, pointsB, a, b, c, result) ==
    [op |-> op, pointsA |-> pointsA, pointsB |-> pointsB, a |-> a, b |-> b, c |-> c, result |-> result]

UnionInit ==
    /\ PageAtRest
    /\ lab = UnionCall("new Bounds3D", << >>, << >>, NewBounds3D, NewBounds3D,
                       NewBounds3D, NewBounds3D)

\* const a = Bounds3D.fromPoints(points): the earlier operands move on
Union_fromPoints(points) ==
    /\ lab' = UnionCall("fromPoints", points, lab.pointsA,
                        Bounds3D_fromPoints(points, undefined), lab.a, lab.b,
                        Bounds3D_fromPoints(points, undefined))
    /\ UNCHANGED frameVars

\* Bounds3D.fromUnion(a, b, out) / a.union(b, out)
Union_fromUnion(which) ==
    /\ lab' = [lab EXCEPT !.op = "fromUnion",
                          !.result = fromUnionInto(lab.a, lab.b, which)]
    /\ UNCHANGED frameVars

UnionNext ==
    \/ \E points \in UnionPointLists : Union_fromPoints(points)
    \/ \E which \in OutChoices : Union_fromUnion(which)

SpecUnion == UnionInit /\ [][UnionNext]_vars

\* C21: union is commutative and associative, also when out is one of the
\* operands; the empty bounds (lo = +Infinity, hi = -Infinity) are its
\* identity; the union of fromPoints(A) and fromPoints(B) is fromPoints of
\* the points of A and B together.
C21_UnionLaws ==
    lab.op = "fromUnion"
       => /\ \A which \in OutChoices :
                /\ lab.result = fromUnionInto(lab.b, lab.a, which)
                /\ \A other \in OutChoices :
                      fromUnionInto(lab.result, lab.c, which)
                         = fromUnionInto(lab.a, fromUnionInto(lab.b, lab.c, other), which)
                /\ fromUnionInto(lab.a, NewBounds3D, which) = lab.a
                /\ fromUnionInto(NewBounds3D, lab.a, which) = lab.a
          /\ lab.result = Bounds3D_fromPoints(lab.pointsA \o lab.pointsB, undefined)

\* two operands that each reach further than the other on some axis have
\* been united, and a third, non-empty operand is at hand
C21_Witness ==
    /\ lab.op = "fromUnion"
    /\ lab.pointsA # << >> /\ lab.pointsB # << >> /\ lab.c # NewBounds3D
    /\ lab.result # lab.a /\ lab.result # lab.b
    /\ lab.c # lab.a /\ lab.c # lab.b

----------------------------------------------------------------------------
(* The microcontroller firmware: setup() and the serial loop() *)

\* const int TOTAL_NUM_LEDS = 102, scaled down
TOTAL_NUM_LEDS == 1

EXPECTED_BYTES_PER_FRAME == TOTAL_NUM_LEDS * 3

\* const int ledsInStrip0 = 120: the strip registered with FastLED is longer
\* than g_dataBuffer (102 leds); the model keeps it one led longer
ledsInStrip0 == TOTAL_NUM_LEDS + 1

\* bytes read from the serial port before the model stops; g_dataBytesRead
\* (an int) counts at most that many bytes and stays far from its width
MaxStream == 8

\* what Serial.read() returns while Serial.available(): a data byte, the
\* byte the server writes in place of 0xFF, the header byte
SerialBytes == {1, 254, 255}

\* what a read beyond the end of g_dataBuffer may find
BeyondBytes == {0, 255}

\* the globals after setup(): g_dataBuffer is zero-initialised,
\* g_dataBuffer[k] is kept at index k + 1
FirmwareGlobals ==
    [g_isReadingFrame |-> FALSE,
     g_dataBytesRead  |-> EXPECTED_BYTES_PER_FRAME,
     g_dataBuffer     |-> [k \in 1 .. EXPECTED_BYTES_PER_FRAME |-> 0]]

\* *(rawBuffer + offset) = (char)got; offset is recorded by the caller
poke(buffer, offset, got) ==
    IF offset + 1 \in DOMAIN buffer THEN [buffer EXCEPT ![offset + 1] = got] ELSE buffer

\* a loop body that still reads a frame after having shown it
loop_iteration_noStop(fw, got) ==
    IF got = 255
    THEN [g_isReadingFrame |-> TRUE, g_dataBytesRead |-> 0,
          g_dataBuffer |-> fw.g_dataBuffer, show |-> FALSE, stored |-> -1,
          printed |-> ""]
    ELSE IF fw.g_isReadingFrame
    THEN [g_isReadingFrame |-> TRUE, g_dataBytesRead |-> fw.g_dataBytesRead + 1,
          g_dataBuffer |-> poke(fw.g_dataBuffer, fw.g_dataBytesRead, got),
          show |-> (fw.g_dataBytesRead + 1 = EXPECTED_BYTES_PER_FRAME),
          stored |-> fw.g_dataBytesRead, printed |-> ""]
    ELSE [g_isReadingFrame |-> FALSE, g_dataBytesRead |-> fw.g_dataBytesRead + 1,
          g_dataBuffer |-> fw.g_dataBuffer, show |-> FALSE, stored |-> -1,
          printed |-> ""]

\* a loop body whose header byte leaves the count of a finished frame
loop_iteration_noReset(fw, got) ==
    IF got = 255
    THEN [g_isReadingFrame |-> TRUE,
          g_dataBytesRead |-> IF fw.g_isReadingFrame THEN 0 ELSE fw.g_dataBytesRead,
          g_dataBuffer |-> fw.g_dataBuffer, show |-> FALSE, stored |-> -1,
          printed |-> ""]
    ELSE loop_iteration_noStop(fw, got)

\* one pass of the body of while (SERIAL_USB.available()) with got =
\* Serial.read(): the globals afterwards, whether FastLED.show() was called,
\* the offset a byte was stored at (-1: none) and what was printed
loop_iteration(fw, got) ==
    IF got = 255
    THEN [g_isReadingFrame |-> TRUE, g_dataBytesRead |-> 0,
          g_dataBuffer |-> fw.g_dataBuffer, show |-> FALSE, stored |-> -1,
          printed |-> IF fw.g_isReadingFrame THEN "Frame too short"
                      ELSE IF fw.g_dataBytesRead > EXPECTED_BYTES_PER_FRAME
                      THEN "Frame too long" ELSE ""]
    ELSE IF fw.g_isReadingFrame
    THEN LET count == fw.g_dataBytesRead + 1
         IN  [g_isReadingFrame |-> (count # EXPECTED_BYTES_PER_FRAME),
              g_dataBytesRead |-> count,
              g_dataBuffer |-> poke(fw.g_dataBuffer, fw.g_dataBytesRead, got),
              show |-> (count = EXPECTED_BYTES_PER_FRAME),
              stored |-> fw.g_dataBytesRead, printed |-> ""]
    ELSE [g_isReadingFrame |-> FALSE, g_dataBytesRead |-> fw.g_dataBytesRead + 1,
          g_dataBuffer |-> fw.g_dataBuffer, show |-> FALSE, stored |-> -1,
          printed |-> ""]

\* the bytes FastLED.show() clocks out: ledsInStrip0 leds starting at
\* g_dataBuffer, those past the end of the array being whatever lies there
StripBytes(buffer, beyond) == buffer \o beyond

BeyondReads == [1 .. (ledsInStrip0 - TOTAL_NUM_LEDS) * 3 -> BeyondBytes]

FirmwareState(op, fw, before, received, displayed) ==
    [op |-> op, fw |-> fw, before |-> before, received |-> received, displayed |-> displayed]

FirmwareInit ==
    /\ PageAtRest
    /\ lab = FirmwareState("setup",
                FirmwareGlobals @@ [show |-> FALSE, stored |-> -1, printed |-> ""],
                FirmwareGlobals, << >>, << >>)

\* loop(): Serial.read() gives got
Firmware_loop(got) ==
    /\ Len(lab.received) < MaxStream
    /\ LET after == loop_iteration(lab.fw, got)
       IN  \E beyond \in (IF after.show THEN BeyondReads ELSE {<< >>}) :
              lab' = FirmwareState("loop", after,
                        [g_isReadingFrame |-> lab.fw.g_isReadingFrame,
                         g_dataBytesRead  |-> lab.fw.g_dataBytesRead,
                         g_dataBuffer     |-> lab.fw.g_dataBuffer],
                        Append(lab.received, got),
                        IF after.show THEN StripBytes(after.g_dataBuffer, beyond)
                        ELSE lab.displayed)
    /\ UNCHANGED frameVars

FirmwareNext == \E got \in SerialBytes : Firmware_loop(got)

SpecFirmware == FirmwareInit /\ [][FirmwareNext]_vars

\* the last n bytes received are a header byte and then n - 1 data bytes
EndsWithFrame(received, n) ==
    /\ Len(received) >= n
    /\ received[Len(received) - n + 1] = 255
    /\ \A k \in Len(received) - n + 2 .. Len(received) : received[k] # 255

\* C22: FastLED.show() is called exactly when EXPECTED_BYTES_PER_FRAME bytes
\* other than 0xFF have arrived right after a 0xFF; a 0xFF starts a frame
\* (g_isReadingFrame, g_dataBytesRead = 0) in whatever state it arrives; a
\* byte received while no frame is being read leaves the led buffer alone.
C22_ShowsExactlyWholeFrames ==
    lab.op = "loop"
       => /\ lab.fw.show <=> EndsWithFrame(lab.received, EXPECTED_BYTES_PER_FRAME + 1)
          /\ lab.received[Len(lab.received)] = 255
                => lab.fw.g_isReadingFrame /\ lab.fw.g_dataBytesRead = 0
          /\ ~lab.before.g_isReadingFrame
                => lab.fw.g_dataBuffer = lab.before.g_dataBuffer

\* a frame cut short by a header byte, then a whole frame, which is shown
C22_Witness ==
    /\ lab.op = "loop" /\ lab.fw.show
    /\ Len(lab.received) = EXPECTED_BYTES_PER_FRAME + 3
    /\ lab.received[1] = 255 /\ lab.received[2] # 255 /\ lab.received[3] = 255

\* a frame one byte too long: the byte after it is counted and not stored
C22_WitnessTooLong ==
    /\ lab.op = "loop" /\ ~lab.before.g_isReadingFrame /\ ~lab.fw.g_isReadingFrame
    /\ lab.fw.g_dataBytesRead = EXPECTED_BYTES_PER_FRAME + 1
    /\ lab.displayed # << >>

\* C27: while a frame is being read 0 <= g_dataBytesRead <
\* EXPECTED_BYTES_PER_FRAME, and every byte stored into g_dataBuffer is
\* written at an offset inside the buffer.
C27_WritesInsideBuffer ==
    /\ lab.fw.g_isReadingFrame
          => 0 <= lab.fw.g_dataBytesRead /\ lab.fw.g_dataBytesRead < EXPECTED_BYTES_PER_FRAME
    /\ lab.fw.stored # -1
          => 0 <= lab.fw.stored /\ lab.fw.stored < EXPECTED_BYTES_PER_FRAME

\* the last byte of a frame has just been stored at the last offset
C27_Witness ==
    /\ lab.op = "loop" /\ lab.fw.stored = EXPECTED_BYTES_PER_FRAME - 1
    /\ lab.fw.show /\ ~lab.fw.g_isReadingFrame

----------------------------------------------------------------------------
(* forwardBufferToDevice over a sequence of calls: the bytes on the wire *)

\* length of a buffer handed to forwardBufferToDevice
MaxBuffer == 2

\* calls of forwardBufferToDevice before the model stops
MaxForwards == 2

ForwardBytes == {0, 7, 254, 255}

ForwardBuffers == UNION { [1 .. n -> ForwardBytes] : n \in 0 .. MaxBuffer }

ForwardState(op, buffer, frame, wire, starts) ==
    [op |-> op, buffer |-> buffer, frame |-> frame, wire |-> wire, starts |-> starts]

\* nothing has been written to the device yet
ForwardInit ==
    /\ PageAtRest
    /\ lab = ForwardState("open", << >>, << >>, << >>, << >>)

\* forwardBufferToDevice(connectedDevice, buffer): device.write([0xFF]),
\* device.write(buffer), both queued behind what was written before
Forward_forwardBufferToDevice(buffer) ==
    /\ Len(lab.starts) < MaxForwards
    /\ lab' = ForwardState("forwardBufferToDevice", buffer,
                           forwardBufferToDevice(buffer),
                           lab.wire \o forwardBufferToDevice(buffer),
                           Append(lab.starts, Len(lab.wire) + 1))
    /\ UNCHANGED frameVars

ForwardNext == \E buffer \in ForwardBuffers : Forward_forwardBufferToDevice(buffer)

SpecForward == ForwardInit /\ [][ForwardNext]_vars

\* C23: the bytes written for a buffer are one 0xFF and then the bytes of
\* the buffer in order, every 0xFF replaced by 0xFE and every other byte
\* unchanged; in the bytes of all calls together 0xFF occurs only as the
\* first byte of each frame.
C23_HeaderOnlyStartsFrames ==
    lab.op = "forwardBufferToDevice"
       => /\ Len(lab.frame) = Len(lab.buffer) + 1
          /\ lab.frame[1] = 255
          /\ \A k \in 1 .. Len(lab.buffer) :
                lab.frame[k + 1] = IF lab.buffer[k] = 255 THEN 254 ELSE lab.buffer[k]
          /\ \A k \in 1 .. Len(lab.wire) :
                lab.wire[k] = 255 <=> \E f \in 1 .. Len(lab.starts) : lab.starts[f] = k

\* a second frame has been written, for a buffer holding 0xFF, 0xFE
C23_Witness ==
    /\ lab.op = "forwardBufferToDevice"
    /\ Len(lab.starts) = 2 /\ lab.starts[2] > 2
    /\ lab.buffer = <<255, 254>>

----------------------------------------------------------------------------
(* scanForDevices: the scan loop, the open callbacks, 'close' and 'error' *)

\* SerialPort objects created by scanForDevices before the model stops
MaxPorts == 3

Ports == 1 .. MaxPorts

\* port[p]: "none" (not created), "opening" (open attempt pending), "open",
\* "failed" (the open callback got an error), "closed" ('close' emitted);
\* emitted[p]: p has emitted 'close' or 'error'; notOpen: ports on which
\* flush() was called while they were not open and whose 'error' event for
\* it is still to come; set: the statuses the last step assigned in order;
\* was: the status before the last step; by: the port the last step was about
ScanState(op, at, status, connectedDevice, port, emitted, notOpen, set, was, by) ==
    [op |-> op, pc |-> at, status |-> status, connectedDevice |-> connectedDevice, port |-> port, emitted |-> emitted, notOpen |-> notOpen, set |-> set, was |-> was, by |-> by]

\* scanForDevices(1000) has been called: setDeviceStateScanning(NO_DEVICES),
\* the first pass of the loop awaits SerialPort.list(); connectedDevice is null
ScanInit ==
    /\ PageAtRest
    /\ lab = ScanState("scanForDevices", "list", "Scanning", 0,
                       [p \in Ports |-> "none"], [p \in Ports |-> FALSE], {},
                       <<"Scanning">>, "Scanning", 0)

Created == {p \in Ports : lab.port[p] # "none"}

\* await SerialPort.list() resolves, with a desired port in the list or not:
\* connectedDevice = new SerialPort(...) with its three listeners, or
\* setDeviceStateScanning(deviceList); then await sleep(intervalMs)
Scan_listed(found) ==
    /\ lab.pc = "list"
    /\ found => Created # Ports
    /\ LET p == Cardinality(Created) + 1
       IN  lab' = IF found
                  THEN [lab EXCEPT !.op = "new SerialPort", !.pc = "sleep",
                                   !.connectedDevice = p, !.port[p] = "opening",
                                   !.set = << >>, !.was = lab.status, !.by = p]
                  ELSE [lab EXCEPT !.op = "listed", !.pc = "sleep",
                                   !.status = "Scanning", !.set = <<"Scanning">>,
                                   !.was = lab.status, !.by = 0]
    /\ UNCHANGED frameVars

\* the sleep timer fires: the next pass of while (true) lists the ports
\* when the status is 'Scanning' and sleeps again otherwise
Scan_tick ==
    /\ lab.pc = "sleep"
    /\ lab' = [lab EXCEPT !.op = "tick",
                          !.pc = IF lab.status = "Scanning" THEN "list" ELSE "sleep",
                          !.set = << >>, !.was = lab.status, !.by = 0]
    /\ UNCHANGED frameVars

\* the open callback of p without err: connectedDevice.flush() (an 'error'
\* is emitted later when that port is not open), the parser is piped,
\* setDeviceStateConnected
Port_opened(p) ==
    /\ lab.port[p] = "opening"
    /\ lab' = [lab EXCEPT !.op = "opened", !.port[p] = "open",
                          !.notOpen = IF lab.connectedDevice # p
                                         /\ lab.port[lab.connectedDevice] # "open"
                                      THEN @ \cup {lab.connectedDevice} ELSE @,
                          !.status = "Connected", !.set = <<"Connected">>,
                          !.was = lab.status, !.by = p]
    /\ UNCHANGED frameVars

\* the open callback of p with err: setDeviceStateUnableToConnect(err),
\* setDeviceStateScanning(deviceList)
Port_failed(p) ==
    /\ lab.port[p] = "opening"
    /\ lab' = [lab EXCEPT !.op = "failed", !.port[p] = "failed",
                          !.status = "Scanning",
                          !.set = <<"UnableToConnect", "Scanning">>,
                          !.was = lab.status, !.by = p]
    /\ UNCHANGED frameVars

\* p emits 'close' (the device was unplugged): setDeviceStateScanning(NO_DEVICES)
Port_close(p) ==
    /\ lab.port[p] = "open"
    /\ lab' = [lab EXCEPT !.op = "close", !.port[p] = "closed",
                          !.emitted[p] = TRUE, !.notOpen = @ \ {p},
                          !.status = "Scanning", !.set = <<"Scanning">>,
                          !.was = lab.status, !.by = p]
    /\ UNCHANGED frameVars

\* p emits 'error' (a failed read or write on the open port, or a flush
\* of a port that was not open): setDeviceStateScanning(NO_DEVICES); the
\* port is left as it is
Port_error(p) ==
    /\ lab.port[p] = "open" \/ p \in lab.notOpen
    /\ ~lab.emitted[p] \/ p \in lab.notOpen
    /\ lab' = [lab EXCEPT !.op = "error", !.emitted[p] = TRUE,
                          !.notOpen = @ \ {p},
                          !.status = "Scanning", !.set = <<"Scanning">>,
                          !.was = lab.status, !.by = p]
    /\ UNCHANGED frameVars

ScanNext ==
    \/ \E found \in BOOLEAN : Scan_listed(found)
    \/ Scan_tick
    \/ \E p \in Ports : Port_opened(p)
    \/ \E p \in Ports : Port_failed(p)
    \/ \E p \in Ports : Port_close(p)
    \/ \E p \in Ports : Port_error(p)

SpecScan == ScanInit /\ [][ScanNext]_vars

\* C24: at most one SerialPort created by scanForDevices is open or has an
\* open attempt pending, and while the status is 'Connected' connectedDevice
\* is the port whose open callback succeeded and which has not emitted
\* 'close' or 'error' since.
C24_OnePortAndItIsConnected ==
    /\ Cardinality({p \in Ports : lab.port[p] \in {"opening", "open"}}) <= 1
    /\ lab.status = "Connected"
          => /\ lab.connectedDevice \in Ports
             /\ lab.port[lab.connectedDevice] = "open"
             /\ ~lab.emitted[lab.connectedDevice]

\* C25: the loop lists the ports and opens a port only while the status is
\* 'Scanning'; a failed open sets 'UnableToConnect' and then 'Scanning'; a
\* 'close' or 'error' of the connected device sets 'Scanning'.
C25_OpensOnlyWhileScanning ==
    /\ lab.pc = "list" /\ lab.op = "tick" => lab.status = "Scanning"
    /\ lab.op = "new SerialPort" => lab.status = "Scanning"
    /\ lab.op = "failed" => lab.set = <<"UnableToConnect", "Scanning">>
    /\ lab.op \in {"close", "error"} => lab.status = "Scanning"

----------------------------------------------------------------------------
(* From the /data websocket to the led strip: server, serial line, firmware *)

\* messages forwarded by the server before the model stops
MaxMessages == 2

\* the buffers trySendToMicrocontroller sends: empty before the mappings
\* have loaded, shorter than, as long as and longer than a frame
MessageBuffers == UNION { [1 .. n -> {7, 255}] : n \in 0 .. EXPECTED_BYTES_PER_FRAME + 1 }

\* sent: the buffers forwarded so far; wire: the bytes written to the
\* device and not yet read, each with the number of its message; origin[k]:
\* the message g_dataBuffer[k - 1] was stored from (0: none); displayed: the
\* bytes of the last FastLED.show(); shown: the messages a show() followed
EndToEndState(op, sent, wire, fw, origin, displayed, shown) ==
    [op |-> op, sent |-> sent, wire |-> wire, fw |-> fw, origin |-> origin, displayed |-> displayed, shown |-> shown]

\* the device is connected and the firmware has run setup()
EndToEndInit ==
    /\ PageAtRest
    /\ lab = EndToEndState("Connected", << >>, << >>,
                FirmwareGlobals @@ [show |-> FALSE, stored |-> -1, printed |-> ""],
                [k \in 1 .. EXPECTED_BYTES_PER_FRAME |-> 0], << >>, {})

\* incoming(message) while 'Connected': forwardBufferToDevice(connectedDevice, message)
EndToEnd_incoming(buffer) ==
    /\ Len(lab.sent) < MaxMessages
    /\ LET m     == Len(lab.sent) + 1
           frame == forwardBufferToDevice(buffer)
       IN  lab' = [lab EXCEPT !.op = "incoming", !.sent = Append(@, buffer),
                     !.wire = @ \o [k \in 1 .. Len(frame) |-> [byte |-> frame[k], of |-> m]],
                     !.fw = [@ EXCEPT !.show = FALSE, !.stored = -1, !.printed = ""]]
    /\ UNCHANGED frameVars

\* loop(): Serial.read() takes the next byte off the serial line
EndToEnd_loop ==
    /\ lab.wire # << >>
    /\ LET got   == Head(lab.wire)
           after == loop_iteration([g_isReadingFrame |-> lab.fw.g_isReadingFrame,
                                    g_dataBytesRead  |-> lab.fw.g_dataBytesRead,
                                    g_dataBuffer     |-> lab.fw.g_dataBuffer], got.byte)
       IN  \E beyond \in (IF after.show THEN BeyondReads ELSE {<< >>}) :
              lab' = [lab EXCEPT !.op = "loop", !.wire = Tail(@), !.fw = after,
                        !.origin = IF after.stored + 1 \in DOMAIN @
                                   THEN [@ EXCEPT ![after.stored + 1] = got.of] ELSE @,
                        !.displayed = IF after.show
                                      THEN StripBytes(after.g_dataBuffer, beyond) ELSE @,
                        !.shown = IF after.show THEN @ \cup {got.of} ELSE @]
    /\ UNCHANGED frameVars

EndToEndNext ==
    \/ \E buffer \in MessageBuffers : EndToEnd_incoming(buffer)
    \/ EndToEnd_loop

SpecEndToEnd == EndToEndInit /\ [][EndToEndNext]_vars

\* the first EXPECTED_BYTES_PER_FRAME bytes of message m as they are written
FramePayload(m) ==
    [k \in 1 .. EXPECTED_BYTES_PER_FRAME |->
        IF lab.sent[m][k] = 255 THEN 254 ELSE lab.sent[m][k]]

\* when show() is called g_dataBuffer holds the first
\* EXPECTED_BYTES_PER_FRAME bytes of one message, and once the serial line
\* is empty show() has followed exactly the messages that are long enough
BufferFromOneMessage ==
    /\ lab.op = "loop" /\ lab.fw.show
          => \E m \in 1 .. Len(lab.sent) :
                /\ \A k \in 1 .. EXPECTED_BYTES_PER_FRAME : lab.origin[k] = m
                /\ Len(lab.sent[m]) >= EXPECTED_BYTES_PER_FRAME
                /\ lab.fw.g_dataBuffer = FramePayload(m)
    /\ lab.wire = << >>
          => lab.shown = {m \in 1 .. Len(lab.sent) :
                             Len(lab.sent[m]) >= EXPECTED_BYTES_PER_FRAME}

\* C26: every frame the firmware displays is the first
\* EXPECTED_BYTES_PER_FRAME payload bytes of one forwarded message (0xFF
\* replaced by 0xFE): a buffer of that length is displayed as sent, a
\* shorter one is never displayed, the extra bytes of a longer one are
\* discarded.
C26_DisplaysOneMessage ==
    /\ BufferFromOneMessage
    /\ lab.op = "loop" /\ lab.fw.show
          => \E m \in 1 .. Len(lab.sent) : lab.displayed = FramePayload(m)

====
